---- MODULE Spec2Model ----
(***************************************************************************)
(* Model of the airline workflow example of tau-bench:                     *)
(*   - the cancel_reservation tool (tools/cancel_reservation.py), a        *)
(*     mutation of the in-memory dataset;                                  *)
(*   - the FastWorkflow agent adapter (agents/fastworkflow_adapter.py),    *)
(*     its interaction loop over the trace and output queues, its reward   *)
(*     computation and its dataset comparison _collect_diffs;              *)
(*   - the command wrappers (_commands/*.py): their input schemas and the  *)
(*     responses they build from the tool results.                         *)
(***************************************************************************)
EXTENDS Integers, Sequences, FiniteSets, TLC

VARIABLES
    data,        \* the dataset dictionary (env.data / the tool's `data`)
    outcome,     \* what the last tool invocation produced (return or raise)
    call,        \* the last tool invocation: its argument and the dataset before it
    ncalls,      \* number of tool invocations made so far (tool specification)
    pc,              \* where solve is: start, trace, out, check, snapshot, simulate,
                     \* score, except, returned ("off": solve is not running)
    max_num_steps,   \* solve's parameter
    task_actions,    \* env.task.actions, the reference actions of the task
    iter,            \* iterations of the loop of line 295 started so far
    trace_q,         \* chat_session.command_trace_queue
    output_q,        \* chat_session.command_output_queue
    user_q,          \* chat_session.user_message_queue
    processed,       \* `processed` of the drain in progress
    progressed,      \* `progressed` of the iteration in progress
    done,            \* `done` of solve
    steps_taken,     \* `steps_taken`
    idle_cycles,     \* `idle_cycles`
    actions_executed,           \* `actions_executed`
    aggregated_response_texts,  \* `aggregated_response_texts`
    env_actions,     \* env.actions: the steps issued to the environment, in order
    agent_final_data,\* `agent_final_data` (NoSnapshot before line 324)
    gt_data_sim,     \* `gt_data_sim` (NoData before line 325)
    result,          \* the SolveResult returned (NoResult before the return)
    budget,          \* items the workflow process may put on its queues in this run
    backlog,         \* items the workflow process puts on each queue between
                     \* start_workflow (line 276) and the first drain (line 297)
    emitted,         \* items the workflow process has put on each queue so far
    pending,         \* the queued items that call for a step of the environment
                     \* (each by the name of its queue), oldest first
    polled,          \* items dequeued from both queues in the iteration in progress
    ndeq,            \* items dequeued from both queues since the start
    sim_done,        \* a respond step of the environment has returned done
    trace_log,       \* the events taken off the trace queue so far, in order
    out_log,         \* the outputs taken off the output queue so far, in order,
                     \* each with the respond step it caused and the reply
    exc,             \* the message of the exception solve caught ("" when none)
    gt_invoked,      \* the tool invocations the ground-truth replay made, in order
    calls,           \* what solve has done so far, in order: "reset",
                     \* "start_workflow", a "step" for each env.step, "loop_end",
                     \* "collect_diffs", "calculate_reward"
    agent,           \* _collect_diffs: its argument `agent`
    gt,              \* _collect_diffs: its argument `gt`
    limit,           \* _collect_diffs: its argument `limit`
    given,           \* _collect_diffs: the list `diffs` as the call received it
    diffs,           \* _collect_diffs: the list `diffs`
    dpc,             \* _collect_diffs: "call" before the call, "done" after it
    command,         \* the command a ResponseGenerator is called for
    command_parameters, \* its parameters, as far as the response reads them
    tool_result,     \* what the tool of the command returned
    output,          \* the field of the Signature.Output of _process_command
    invoked,         \* the tools the command invoked, in order
    response,        \* the text of the CommandResponse
    cpc,             \* "idle", "processed" (after _process_command), "responded"
    input_field,     \* the field of an input model that is being built
    supplied,        \* the value the caller gave for it (Omitted when left out)
    field_value,     \* the value the built model holds for it
    ipc              \* "ready", "built", "rejected" (ValidationError)

toolVars == <<data, outcome, call, ncalls>>

loopVars == <<iter, processed, progressed, done, steps_taken, idle_cycles, polled>>
queueVars == <<trace_q, output_q, user_q, emitted, pending, ndeq, trace_log, out_log>>
logVars == <<actions_executed, aggregated_response_texts>>
endVars == <<agent_final_data, gt_data_sim, result, exc, gt_invoked>>
paramVars == <<max_num_steps, task_actions, budget, backlog>>

adapterVars ==
    <<pc, paramVars, loopVars, trace_q, output_q, user_q, emitted, pending, ndeq,
      trace_log, out_log, env_actions, sim_done, logVars, endVars, calls>>

diffVars == <<agent, gt, limit, given, diffs, dpc>>
cmdVars == <<command, command_parameters, tool_result, output, invoked, response, cpc>>
\* what the tool and solve leave alone
inputVars == <<input_field, supplied, field_value, ipc>>
sideVars == <<diffVars, cmdVars, inputVars>>

vars == <<toolVars, adapterVars, sideVars>>

----------------------------------------------------------------------------
(* Bounds of the model *)

\* longest payment history of a reservation in an initial dataset
MaxHist == 2
\* a tool is invoked only while the target's history has at most this many entries
MaxLen == 4
\* number of tool invocations in one run of the tool specification
MaxCalls == 3
\* max_num_steps is drawn from 0..SmallSteps and the default of solve
SmallSteps == 2
\* items the workflow process puts on its two queues together in a run of
\* at most SmallSteps iterations
MaxItems == 3
\* items the workflow process puts on its two queues together in a run with
\* the default max_num_steps, which may last idle_limit iterations and more
LongItems == 1
\* the workflow process emits during the first EmitWindow iterations only
EmitWindow == 1

----------------------------------------------------------------------------
(* The dataset *)

ReservationIds == {"4WQ150", "ZFA04Y"}
\* an id that is no key of any dataset
UnknownId == "ZZZZZZ"
PaymentIds == {"credit_card_1", "gift_card_2"}
Amounts == {100, 25}

\* a payment entry as the tool reads it: {"payment_id": ..., "amount": ...}
Payments == [payment_id : PaymentIds, amount : Amounts]
\* an entry lacking its "amount" key: the dataset is not well formed
BadPayments == [payment_id : {"credit_card_1"}]

RECURSIVE SeqsUpTo(_, _)
SeqsUpTo(S, n) ==
    IF n = 0 THEN {<<>>}
    ELSE LET shorter == SeqsUpTo(S, n - 1)
         IN  shorter \cup {Append(s, x) : s \in {t \in shorter : Len(t) = n - 1}, x \in S}

HasAmount(p) == "amount" \in DOMAIN p

WellFormedHistory(h) == \A i \in 1..Len(h) : HasAmount(h[i])

WellFormed(d) ==
    \A r \in DOMAIN d.reservations : WellFormedHistory(d.reservations[r].payment_history)

Users == [mia_li_3668 |-> [balance |-> 500]]
Flights == [HAT001 |-> [price |-> 100]]

NewReservation(h) ==
    [user_id |-> "mia_li_3668", payment_history |-> h, status |-> "active"]

----------------------------------------------------------------------------
(* tools/cancel_reservation.py *)

\* a variant of line 16 whose text lacks the error marker
NotFoundErrorNoMarker == <<"reservation not found">>

\* the fixed error string of line 16, as its marker and the rest of the text
NotFoundError == <<"Error:", " reservation not found">>

\* the str a tool returns begins with the error marker
IsError(s) == Len(s) > 0 /\ s[1] = "Error:"

\* a variant of line 22 that copies the amount
NegateForgotten(a) == a

\* -payment["amount"]
Negate(a) == 0 - a

\* a variant of lines 19-25 that lists the refunds last payment first
RefundsReversed(history) ==
    [i \in 1..Len(history) |->
        [payment_id |-> history[Len(history) + 1 - i].payment_id,
         amount |-> 0 - history[Len(history) + 1 - i].amount]]

\* the list comprehension of lines 19-25
Refunds(history) ==
    [i \in 1..Len(history) |->
        [payment_id |-> history[i].payment_id, amount |-> Negate(history[i].amount)]]

\* a variant of line 26 that puts the refunds in front
ExtendInFront(history, refunds) == refunds \o history

\* reservation["payment_history"].extend(refunds)
Extend(history, refunds) == history \o refunds

\* reservation["status"] = "cancelled"
CancelledStatus == "cancelled"

\* json.dumps of a str: the text between double quotes
DumpsStr(s) == <<"\"", s, "\"">>

\* json.dumps of one payment entry
DumpsPayment(p) ==
    <<"{", "\"payment_id\": ">> \o DumpsStr(p.payment_id)
    \o <<", ", "\"amount\": ", ToString(p.amount), "}">>

\* json.dumps of the entries of a list, separated by ", "
RECURSIVE DumpsHistory(_)
DumpsHistory(h) ==
    IF h = <<>> THEN <<>>
    ELSE IF Len(h) = 1 THEN DumpsPayment(Head(h))
    ELSE DumpsPayment(Head(h)) \o <<", ">> \o DumpsHistory(Tail(h))

\* json.dumps(reservation): the text of a JSON object, as its tokens
JsonDumps(reservation) ==
    <<"{", "\"user_id\": ">> \o DumpsStr(reservation.user_id)
    \o <<", ", "\"payment_history\": ", "[">>
    \o DumpsHistory(reservation.payment_history)
    \o <<"]", ", ", "\"status\": ">> \o DumpsStr(reservation.status) \o <<"}">>

Return(d, v) == [data |-> d, kind |-> "return", value |-> v]
Raise(d, e) == [data |-> d, kind |-> "raise", value |-> <<e>>]

\* a variant of lines 17-28 that also credits the refund to the balance of
\* the user of the reservation
CancelPresentCreditsUser(d, reservation_id) ==
    LET reservation == d.reservations[reservation_id]
        history == reservation.payment_history
    IN  IF ~WellFormedHistory(history)
        THEN Raise(d, "KeyError")
        ELSE LET updated ==
                     [reservation EXCEPT
                         !.payment_history = Extend(history, Refunds(history)),
                         !.status = CancelledStatus]
                 d2 == [d EXCEPT !.reservations[reservation_id] = updated,
                                 !.users[reservation.user_id].balance = @ + 1]
             IN  Return(d2, JsonDumps(updated))

\* lines 17-28: the reservation is a key of the dataset
CancelPresent(d, reservation_id) ==
    LET reservation == d.reservations[reservation_id]
        history == reservation.payment_history
    IN  IF ~WellFormedHistory(history)
        THEN Raise(d, "KeyError")
        ELSE LET updated ==
                     [reservation EXCEPT
                         !.payment_history = Extend(history, Refunds(history)),
                         !.status = CancelledStatus]
                 d2 == [d EXCEPT !.reservations[reservation_id] = updated]
             IN  Return(d2, JsonDumps(updated))

\* a variant of invoke without the membership test of line 15
CancelInvokeNoCheck(d, reservation_id) ==
    IF reservation_id \notin DOMAIN d.reservations
    THEN Raise(d, "KeyError")
    ELSE CancelPresent(d, reservation_id)

\* CancelReservation.invoke(data, reservation_id): the dataset it leaves and
\* what it returns or raises
CancelInvoke(d, reservation_id) ==
    IF reservation_id \notin DOMAIN d.reservations
    THEN Return(d, NotFoundError)
    ELSE CancelPresent(d, reservation_id)

----------------------------------------------------------------------------
(* The tool specification: invocations of the tool on a dataset *)

NoCall == [reservation_id |-> "", before |-> <<>>]

InitDatasets ==
    LET Histories == SeqsUpTo(Payments \cup BadPayments, MaxHist)
    IN  { [reservations |-> rs, users |-> Users, flights |-> Flights] :
            rs \in UNION { [ks -> {NewReservation(h) : h \in Histories}] :
                             ks \in SUBSET ReservationIds } }

\* nothing has been captured yet
NoSnapshot == [taken |-> FALSE]
\* the ground truth has not been replayed yet
NoData == [replayed |-> FALSE]
\* solve has not returned yet
NoResult == [returned |-> FALSE]

\* _collect_diffs is not being called
DiffOff ==
    /\ agent = <<>> /\ gt = <<>> /\ limit = 0
    /\ given = <<>> /\ diffs = <<>> /\ dpc = "off"

\* no command is being processed
CmdOff ==
    /\ command = "" /\ command_parameters = [reservation_id |-> "", amount |-> 0]
    /\ tool_result = <<>> /\ output = <<>>
    /\ invoked = <<>> /\ response = <<>> /\ cpc = "off"

\* the caller left the field out
Omitted == [t |-> "omitted", v |-> <<>>]
\* the field has no value: the model was not built
NoValue == [t |-> "unset", v |-> <<>>]
NoField ==
    [model |-> "", field |-> "", optional |-> FALSE, default |-> NoValue,
     pattern |-> {}]

\* no input model is being built
InputOff ==
    /\ input_field = NoField /\ supplied = Omitted
    /\ field_value = NoValue /\ ipc = "off"

\* solve is not running
AdapterOff ==
    /\ pc = "off"
    /\ max_num_steps = 0
    /\ task_actions = <<>>
    /\ budget = 0
    /\ backlog = [trace |-> 0, output |-> 0]
    /\ iter = 0 /\ processed = 0 /\ progressed = 0 /\ done = FALSE
    /\ steps_taken = 0 /\ idle_cycles = 0 /\ polled = 0
    /\ trace_q = <<>> /\ output_q = <<>> /\ user_q = <<>>
    /\ emitted = [trace |-> 0, output |-> 0] /\ pending = <<>> /\ ndeq = 0
    /\ trace_log = <<>> /\ out_log = <<>>
    /\ env_actions = <<>> /\ sim_done = FALSE
    /\ actions_executed = <<>> /\ aggregated_response_texts = <<>>
    /\ agent_final_data = NoSnapshot /\ gt_data_sim = NoData /\ result = NoResult
    /\ exc = "" /\ gt_invoked = <<>> /\ calls = <<>>

NoOutcome == [kind |-> "none", value |-> <<>>]

InitTool ==
    /\ data \in InitDatasets
    /\ outcome = NoOutcome
    /\ call = NoCall
    /\ ncalls = 0
    /\ AdapterOff
    /\ DiffOff
    /\ CmdOff
    /\ InputOff

HistoryLen(d, rid) ==
    IF rid \in DOMAIN d.reservations
    THEN Len(d.reservations[rid].payment_history) ELSE 0

\* one invocation of the tool, on any reservation id
Cancel(rid) ==
    /\ ncalls < MaxCalls
    /\ HistoryLen(data, rid) <= MaxLen
    /\ LET r == CancelInvoke(data, rid)
       IN  /\ data' = r.data
           /\ outcome' = [kind |-> r.kind, value |-> r.value]
           /\ call' = [reservation_id |-> rid, before |-> data]
           /\ ncalls' = ncalls + 1
    /\ UNCHANGED <<adapterVars, sideVars>>

NextTool == \E rid \in ReservationIds \cup {UnknownId} : Cancel(rid)

SpecTool == InitTool /\ [][NextTool]_vars

----------------------------------------------------------------------------
(* agents/fastworkflow_adapter.py: what the workflow process produces *)

AGENT_TO_WORKFLOW == "AGENT_TO_WORKFLOW"
WORKFLOW_TO_AGENT == "WORKFLOW_TO_AGENT"

CancelCommand == "cancel_reservation"

\* the parameters None of an event
NoneParams == [None |-> TRUE]

\* command trace events: an executed command, a command executed without
\* parameters, the agent's own request for a command, and an event that
\* carries a response text but no command name
TraceEvents ==
    { [direction |-> WORKFLOW_TO_AGENT, command_name |-> CancelCommand,
       parameters |-> [reservation_id |-> "4WQ150"],
       response_text |-> "Reservation 4WQ150 cancelled", success |-> TRUE],
      [direction |-> WORKFLOW_TO_AGENT, command_name |-> "list_all_airports",
       parameters |-> NoneParams,
       response_text |-> "", success |-> TRUE],
      [direction |-> AGENT_TO_WORKFLOW, command_name |-> CancelCommand,
       parameters |-> [reservation_id |-> "4WQ150"],
       response_text |-> "", success |-> TRUE],
      [direction |-> WORKFLOW_TO_AGENT, command_name |-> "",
       parameters |-> NoneParams,
       response_text |-> "How can I help?", success |-> TRUE] }

\* command outputs: each carries one command response
Outputs ==
    { [command_responses |-> <<" Which reservation? ">>],
      [command_responses |-> <<"   ">>] }

\* what env.step returns for a respond action: the simulated user's reply
\* and whether the conversation is over
RespondResults == [observation : {"", "Cancel 4WQ150 please"}, done : BOOLEAN]

\* the dataset env.reset and env.data_load_func load
LoadData ==
    [reservations |->
        [r \in ReservationIds |->
            NewReservation(<<[payment_id |-> "credit_card_1", amount |-> 100]>>)],
     users |-> Users, flights |-> Flights]

\* env.terminate_tools of the airline environment
TerminateTools == {"transfer_to_human_agents"}

\* the keys of env.tools_map, as far as the tasks name them
ToolsMap == {CancelCommand, "transfer_to_human_agents"}

\* the reference actions of the tasks: none; or a terminal action, an
\* action naming no tool of the environment, a cancellation whose keyword
\* is not one of invoke (it raises TypeError) and a cancellation
TaskActions ==
    { <<>>,
      <<[name |-> "transfer_to_human_agents", kwargs |-> [summary |-> "done"]],
        [name |-> "think", kwargs |-> [thought |-> "check"]],
        [name |-> CancelCommand, kwargs |-> [booking_id |-> "ZFA04Y"]],
        [name |-> CancelCommand, kwargs |-> [reservation_id |-> "4WQ150"]]>> }

\* the items of a backlog: the agent's own request for a command, which the
\* adapter does not mirror, and an output without text
BacklogEvent ==
    [direction |-> AGENT_TO_WORKFLOW, command_name |-> CancelCommand,
     parameters |-> [reservation_id |-> "4WQ150"],
     response_text |-> "", success |-> TRUE]
BacklogOutput == [command_responses |-> <<"   ">>]

\* what an output that caused no respond step, or a step that raised, got
NoRes == [observation |-> "", done |-> FALSE]

----------------------------------------------------------------------------
(* agents/fastworkflow_adapter.py: constants and helpers *)

\* idle_limit = 150
idle_limit == 150
\* max_drain=200 of both drains
max_drain == 200
\* max_num_steps: int = 200
DefaultMaxNumSteps == 200

RESPOND_ACTION_NAME == "respond"

\* _to_plain_kwargs: None gives {}, a dict is returned as it is
ToPlainKwargs(params) == IF "None" \in DOMAIN params THEN <<>> ELSE params

\* lines 163-168
IsAgentToWorkflow(evt) == evt.direction = AGENT_TO_WORKFLOW

\* line 175: isinstance(response_text, str) and len(response_text) > 0
HasResponseText(evt) == evt.response_text # ""

\* line 178: isinstance(cmd_name, str) and len(cmd_name) > 0
HasCommandName(evt) == evt.command_name # ""

\* a variant of lines 170, 178 that mirrors the agent's own requests too
MirroredAlsoAgent(evt) == HasCommandName(evt)

\* lines 170, 178: the event is mirrored into the environment
Mirrored(evt) == ~IsAgentToWorkflow(evt) /\ HasCommandName(evt)

\* lines 179-184
ExecutedRecord(evt) ==
    [name |-> evt.command_name, kwargs |-> ToPlainKwargs(evt.parameters),
     response_text |-> evt.response_text, success |-> evt.success]

\* a sequence without the first of its elements equal to q
RECURSIVE WithoutFirst(_, _)
WithoutFirst(seq, q) ==
    IF seq = <<>> THEN <<>>
    ELSE IF Head(seq) = q THEN Tail(seq)
    ELSE <<Head(seq)>> \o WithoutFirst(Tail(seq), q)

\* TauAction(name=..., kwargs=...)
TauAction(name, kwargs) == [name |-> name, kwargs |-> kwargs]

\* str.strip() on the texts of the outputs
Strip(txt) ==
    CASE txt = "   " -> ""
      [] txt = " Which reservation? " -> "Which reservation?"
      [] OTHER -> txt

\* lines 211-216: the stripped, non-empty responses of an output
RECURSIVE AgentTexts(_)
AgentTexts(responses) ==
    IF responses = <<>> THEN <<>>
    ELSE LET txt == Strip(Head(responses))
         IN  (IF txt # "" THEN <<txt>> ELSE <<>>) \o AgentTexts(Tail(responses))

\* "\n".join(agent_texts): one text is itself, several are kept as the list joined
Join(texts) == IF Len(texts) = 1 THEN texts[1] ELSE texts

\* env.tools_map.get(action.name) is not None
KnownTool(name) == name \in ToolsMap

\* tool_cls.invoke(data=data, **action.kwargs) with its exception
\* suppressed: the dataset the call leaves (an unknown tool is skipped, a
\* call that raises leaves what it had written before, which is nothing;
\* transfer_to_human_agents writes nothing)
InvokeTool(d, action) ==
    IF action.name = CancelCommand /\ "reservation_id" \in DOMAIN action.kwargs
    THEN CancelInvoke(d, action.kwargs.reservation_id).data
    ELSE d

\* env.step of a tool action: the tool runs on env.data
EnvToolStep(d, action) == InvokeTool(d, action)

\* a variant of lines 61-65 that skips unknown tools only
SkippedOnlyUnknown(action) == ~KnownTool(action.name)

\* lines 61-65: the replay passes over terminal actions and unknown tools
Skipped(action) == action.name \in TerminateTools \/ ~KnownTool(action.name)

\* _simulate_gt_data, and the replay inside env.calculate_reward: the
\* reference actions applied in order to a freshly loaded dataset
RECURSIVE Replay(_, _)
Replay(d, actions) ==
    IF actions = <<>> THEN d
    ELSE IF Skipped(Head(actions)) THEN Replay(d, Tail(actions))
    ELSE Replay(InvokeTool(d, Head(actions)), Tail(actions))

\* lines 60-67: the actions on which tool_cls.invoke is called, in order
RECURSIVE Invocations(_)
Invocations(actions) ==
    IF actions = <<>> THEN <<>>
    ELSE (IF Skipped(Head(actions)) THEN <<>> ELSE <<Head(actions)>>)
         \o Invocations(Tail(actions))

SimulateGtData(actions) == Replay(LoadData, actions)

\* a variant of line 324 that keeps a reference to env.data
AliasOfEnvData(obj) == [taken |-> TRUE, value |-> obj, independent |-> FALSE]

\* _json_deepcopy(obj): the dataset has str keys, lists, str and int values
\* only, which json.loads(json.dumps(obj)) gives back as they were, in a new
\* object that shares nothing with obj
JsonDeepcopy(obj) == [taken |-> TRUE, value |-> obj, independent |-> TRUE]

\* a variant of lines 233-234 that puts every reply on the queue
UserQueueAfterAny(q, user_reply) == Append(q, user_reply)

\* lines 233-234: a reply that is a non-empty str is put on the queue
UserQueueAfter(q, user_reply) == IF user_reply # "" THEN Append(q, user_reply) ELSE q

\* SolveResult(reward=..., messages=..., info=...)
SolveResult(reward, messages, info) ==
    [reward |-> reward, messages |-> messages, info |-> info]

\* lines 338-344: the transcript of a run that ended without exception
Messages(texts) ==
    <<[role |-> "system", content |-> "wiki"],
      [role |-> "user", content |-> "instruction"]>>
    \o (IF texts # <<>> THEN <<[role |-> "assistant", content |-> texts]>> ELSE <<>>)

\* a variant of lines 346-351 without the step count
InfoWithoutSteps(steps, actions, reward_res) ==
    [task_index |-> 0, executed_actions |-> actions, reward_info |-> reward_res]

\* lines 346-351
Info(steps, actions, reward_res) ==
    [task_index |-> 0, steps |-> steps, executed_actions |-> actions,
     reward_info |-> reward_res]

\* a variant of lines 359-366 that keeps the user message
ExceptResultWithUser(e) ==
    SolveResult(0, <<[role |-> "system", content |-> "wiki"],
                     [role |-> "user", content |-> "instruction"]>>,
                [error |-> e])

\* lines 359-366: the result of a run that raised
ExceptResult(e) ==
    SolveResult(0, <<[role |-> "system", content |-> "wiki"]>>, [error |-> e])

\* env.calculate_reward: 1.0 when the agent's dataset equals the replayed
\* ground truth, 0.0 otherwise
CalculateReward(d, actions) == IF d = SimulateGtData(actions) THEN 1 ELSE 0

\* a variant of lines 155 and 202 that takes one item more
DrainContinuesInclusive(n) == n <= max_drain

\* lines 155 and 202: while processed < max_drain
DrainContinues(n) == n < max_drain

\* no backlog: the workflow process has queued nothing by the first drain
NoBacklog == [trace |-> 0, output |-> 0]
\* backlogs as long as a drain takes, and longer by one item
Backlogs ==
    {[trace |-> max_drain, output |-> 0],
     [trace |-> max_drain + 1, output |-> max_drain + 1]}

\* a variant of lines 314-317 that never resets the counter
IdleCyclesNoReset(idle, n) == IF n = 0 THEN idle + 1 ELSE idle

\* lines 314-317
IdleCyclesAfter(idle, n) == IF n = 0 THEN idle + 1 ELSE 0

\* a variant of line 318 that ignores done
LoopBreaksOnIdleOnly(d, idle) == idle >= idle_limit

\* a variant of line 318 that stops one idle iteration late
LoopBreaksLate(d, idle) == d \/ idle > idle_limit

\* line 318: if done or idle_cycles >= idle_limit: break
LoopBreaks(d, idle) == d \/ idle >= idle_limit

\* a variant of line 295 that runs one iteration more
RangeHasNextInclusive(i, n) == i <= n

\* line 295: range(max_num_steps) has another element after i iterations
RangeHasNext(i, n) == i < n

----------------------------------------------------------------------------
(* agents/fastworkflow_adapter.py: solve *)

InLoop == pc \in {"trace", "out", "check"}

Init ==
    /\ pc = "start"
    /\ \/ /\ max_num_steps \in 0..SmallSteps
          /\ budget = MaxItems
          /\ backlog = NoBacklog
       \/ /\ max_num_steps = DefaultMaxNumSteps
          /\ budget = LongItems
          /\ backlog = NoBacklog
       \/ /\ max_num_steps = SmallSteps
          /\ budget = 0
          /\ backlog \in Backlogs
    /\ task_actions \in TaskActions
    /\ data = LoadData
    /\ outcome = NoOutcome /\ call = NoCall /\ ncalls = 0
    /\ DiffOff
    /\ CmdOff
    /\ InputOff
    /\ iter = 0 /\ processed = 0 /\ progressed = 0 /\ done = FALSE
    /\ steps_taken = 0 /\ idle_cycles = 0 /\ polled = 0
    /\ trace_q = <<>> /\ output_q = <<>> /\ user_q = <<>>
    /\ emitted = [trace |-> 0, output |-> 0] /\ pending = <<>> /\ ndeq = 0
    /\ trace_log = <<>> /\ out_log = <<>>
    /\ env_actions = <<>> /\ sim_done = FALSE
    /\ actions_executed = <<>> /\ aggregated_response_texts = <<>>
    /\ agent_final_data = NoSnapshot /\ gt_data_sim = NoData /\ result = NoResult
    /\ exc = "" /\ gt_invoked = <<>> /\ calls = <<>>

\* the workflow process puts an event on the trace queue
WorkflowTrace(evt) ==
    /\ InLoop
    /\ iter <= EmitWindow
    /\ emitted.trace + emitted.output < budget
    /\ trace_q' = Append(trace_q, evt)
    /\ emitted' = [emitted EXCEPT !.trace = @ + 1]
    /\ pending' = IF Mirrored(evt) THEN Append(pending, "trace") ELSE pending
    /\ UNCHANGED <<sideVars, calls, toolVars, pc, paramVars, loopVars, output_q, user_q, ndeq,
                   trace_log, out_log, env_actions, sim_done, logVars, endVars>>

\* the workflow process puts an output on the output queue
WorkflowOutput(out) ==
    /\ InLoop
    /\ iter <= EmitWindow
    /\ emitted.trace + emitted.output < budget
    /\ output_q' = Append(output_q, out)
    /\ emitted' = [emitted EXCEPT !.output = @ + 1]
    /\ pending' = IF AgentTexts(out.command_responses) # <<>>
                  THEN Append(pending, "output") ELSE pending
    /\ UNCHANGED <<sideVars, calls, toolVars, pc, paramVars, loopVars, trace_q, user_q, ndeq,
                   trace_log, out_log, env_actions, sim_done, logVars, endVars>>

\* a variant of lines 273-276 that starts the workflow before the reset
StartCallsWorkflowFirst(log) == log \o <<"start_workflow", "reset">>

\* lines 273-276: env.reset, then chat_session.start_workflow
StartCalls(log) == log \o <<"reset", "start_workflow">>

\* the loop of line 295 is left when solve goes on to line 324
LoopEndCall(log, next) == IF next = "snapshot" THEN Append(log, "loop_end") ELSE log

\* the head of the for loop (line 295) after i iterations: the next
\* iteration starts, or the loop is over
LoopHead(i) ==
    IF RangeHasNext(i, max_num_steps)
    THEN /\ iter' = i + 1
         /\ pc' = "trace"
    ELSE /\ iter' = i
         /\ pc' = "snapshot"

\* lines 250-295: reset of the environment, start of the workflow, the
\* locals of solve, and the first test of the loop; the workflow process
\* runs from line 276 on and has queued its backlog by the first drain
Start ==
    /\ pc = "start"
    /\ data' = LoadData
    /\ LoopHead(0)
    /\ processed' = 0 /\ progressed' = 0 /\ polled' = 0
    /\ done' = FALSE /\ steps_taken' = 0 /\ idle_cycles' = 0
    /\ actions_executed' = <<>> /\ aggregated_response_texts' = <<>>
    /\ trace_q' = [i \in 1..backlog.trace |-> BacklogEvent]
    /\ output_q' = [i \in 1..backlog.output |-> BacklogOutput]
    /\ emitted' = backlog
    /\ pending' = <<>>
    /\ calls' = LoopEndCall(StartCalls(calls), pc')
    /\ UNCHANGED <<sideVars, outcome, call, ncalls, paramVars, user_q,
                   ndeq, trace_log, out_log, env_actions, sim_done, endVars>>

\* lines 252-283: the initialization raises (fastworkflow.init, the chat
\* session, env.reset or start_workflow fails)
StartRaise ==
    /\ pc = "start"
    /\ exc' = "workflow failed to start"
    /\ pc' = "except"
    /\ UNCHANGED <<sideVars, calls, toolVars, paramVars, loopVars, queueVars, env_actions,
                   sim_done, logVars, agent_final_data, gt_data_sim, result,
                   gt_invoked>>

\* _drain_command_trace, lines 155-186: one event is taken off the queue
TraceGet ==
    /\ pc = "trace"
    /\ DrainContinues(processed)
    /\ trace_q # <<>>
    /\ LET evt == Head(trace_q)
       IN  /\ trace_q' = Tail(trace_q)
           /\ trace_log' = Append(trace_log, evt)
           /\ processed' = processed + 1
           /\ polled' = polled + 1
           /\ ndeq' = ndeq + 1
           /\ pending' = IF Mirrored(evt) THEN WithoutFirst(pending, "trace")
                         ELSE pending
           /\ IF ~IsAgentToWorkflow(evt) /\ HasResponseText(evt)
              THEN aggregated_response_texts' =
                       Append(aggregated_response_texts, evt.response_text)
              ELSE UNCHANGED aggregated_response_texts
           /\ IF Mirrored(evt)
              THEN /\ actions_executed' = Append(actions_executed, ExecutedRecord(evt))
                   /\ env_actions' =
                          Append(env_actions,
                                 TauAction(evt.command_name, ToPlainKwargs(evt.parameters)))
                   /\ data' = EnvToolStep(data,
                                 TauAction(evt.command_name, ToPlainKwargs(evt.parameters)))
                   /\ calls' = Append(calls, "step")
              ELSE UNCHANGED <<actions_executed, env_actions, data, calls>>
    /\ UNCHANGED <<sideVars, outcome, call, ncalls, pc, paramVars, iter, progressed, done,
                   steps_taken, idle_cycles, output_q, user_q, emitted, out_log,
                   sim_done, endVars>>

\* _drain_command_trace, lines 155-159 and 187, and line 297: the queue is
\* empty or max_drain events were taken; the drain returns its count
TraceEnd ==
    /\ pc = "trace"
    /\ ~DrainContinues(processed) \/ trace_q = <<>>
    /\ progressed' = processed
    /\ processed' = 0
    /\ pc' = "out"
    /\ UNCHANGED <<sideVars, calls, toolVars, paramVars, iter, done, steps_taken, idle_cycles, polled,
                   queueVars, env_actions, sim_done, logVars, endVars>>

\* _drain_agent_outputs_and_respond, lines 202-221: an output without text
OutGetSilent ==
    /\ pc = "out"
    /\ DrainContinues(processed)
    /\ output_q # <<>>
    /\ AgentTexts(Head(output_q).command_responses) = <<>>
    /\ output_q' = Tail(output_q)
    /\ out_log' = Append(out_log, [out |-> Head(output_q), res |-> NoRes])
    /\ processed' = processed + 1
    /\ polled' = polled + 1
    /\ ndeq' = ndeq + 1
    /\ UNCHANGED <<sideVars, calls, toolVars, pc, paramVars, iter, progressed, done, steps_taken,
                   idle_cycles, trace_q, user_q, emitted, pending, trace_log, env_actions,
                   sim_done, logVars, endVars>>

\* _drain_agent_outputs_and_respond, lines 202-238: an output with text is
\* forwarded to the user simulator, which answers res; on done the drain
\* returns at once (lines 236-239) and solve sets done (lines 310-312)
OutGetRespond(res) ==
    /\ pc = "out"
    /\ DrainContinues(processed)
    /\ output_q # <<>>
    /\ LET agent_texts == AgentTexts(Head(output_q).command_responses)
           agent_text == Join(agent_texts)
           user_reply == res.observation
       IN  /\ agent_texts # <<>>
           /\ output_q' = Tail(output_q)
           /\ out_log' = Append(out_log, [out |-> Head(output_q), res |-> res])
           /\ pending' = WithoutFirst(pending, "output")
           /\ polled' = polled + 1
           /\ ndeq' = ndeq + 1
           /\ env_actions' =
                  Append(env_actions,
                         TauAction(RESPOND_ACTION_NAME, [content |-> agent_text]))
           /\ user_q' = UserQueueAfter(user_q, user_reply)
           /\ IF user_reply # ""
              THEN aggregated_response_texts' =
                       aggregated_response_texts \o <<agent_text, user_reply>>
              ELSE aggregated_response_texts' =
                       Append(aggregated_response_texts, agent_text)
           /\ sim_done' = (sim_done \/ res.done)
           /\ IF res.done
              THEN /\ progressed' = progressed + processed + 1
                   /\ processed' = 0
                   /\ done' = TRUE
                   /\ pc' = "check"
              ELSE /\ processed' = processed + 1
                   /\ UNCHANGED <<progressed, done, pc>>
    /\ calls' = Append(calls, "step")
    /\ UNCHANGED <<sideVars, toolVars, paramVars, iter, steps_taken, idle_cycles, trace_q,
                   emitted, trace_log, actions_executed, endVars>>

\* env.step raises inside the respond step (the user simulator fails): the
\* exception leaves the loop for the handler of line 355
OutGetRaise ==
    /\ pc = "out"
    /\ DrainContinues(processed)
    /\ output_q # <<>>
    /\ LET agent_texts == AgentTexts(Head(output_q).command_responses)
       IN  /\ agent_texts # <<>>
           /\ env_actions' =
                  Append(env_actions,
                         TauAction(RESPOND_ACTION_NAME, [content |-> Join(agent_texts)]))
           /\ aggregated_response_texts' =
                  Append(aggregated_response_texts, Join(agent_texts))
    /\ output_q' = Tail(output_q)
    /\ out_log' = Append(out_log, [out |-> Head(output_q), res |-> NoRes])
    /\ pending' = WithoutFirst(pending, "output")
    /\ polled' = polled + 1
    /\ ndeq' = ndeq + 1
    /\ exc' = "user simulator failed"
    /\ pc' = "except"
    /\ calls' = Append(calls, "step")
    /\ UNCHANGED <<sideVars, toolVars, paramVars, iter, processed, progressed, done,
                   steps_taken, idle_cycles, trace_q, user_q, emitted, trace_log,
                   sim_done, actions_executed, agent_final_data, gt_data_sim, result,
                   gt_invoked>>

\* _drain_agent_outputs_and_respond, lines 202-206 and 239, and lines
\* 304-312: the queue is empty or max_drain outputs were taken
OutEnd ==
    /\ pc = "out"
    /\ ~DrainContinues(processed) \/ output_q = <<>>
    /\ progressed' = progressed + processed
    /\ processed' = 0
    /\ pc' = "check"
    /\ UNCHANGED <<sideVars, calls, toolVars, paramVars, iter, done, steps_taken, idle_cycles, polled,
                   queueVars, env_actions, sim_done, logVars, endVars>>

\* lines 313-321 and the next test of line 295: the end of an iteration
Check ==
    /\ pc = "check"
    /\ steps_taken' = steps_taken + progressed
    /\ idle_cycles' = IdleCyclesAfter(idle_cycles, progressed)
    /\ IF LoopBreaks(done, idle_cycles')
       THEN /\ pc' = "snapshot"
            /\ iter' = iter
       ELSE LoopHead(iter)
    /\ progressed' = 0
    /\ polled' = 0
    /\ calls' = LoopEndCall(calls, pc')
    /\ UNCHANGED <<sideVars, toolVars, paramVars, processed, done, queueVars, env_actions,
                   sim_done, logVars, endVars>>

\* line 324: agent_final_data = _json_deepcopy(env.data)
Snapshot ==
    /\ pc = "snapshot"
    /\ agent_final_data' = JsonDeepcopy(data)
    /\ pc' = "simulate"
    /\ UNCHANGED <<sideVars, calls, toolVars, paramVars, loopVars, queueVars, env_actions, sim_done,
                   logVars, gt_data_sim, result, exc, gt_invoked>>

\* lines 325-328: gt_data_sim = _simulate_gt_data(env), which works on a
\* dataset of its own (line 59) and leaves env.data alone, and the call of
\* _collect_diffs on the snapshot and the replayed ground truth
Simulate ==
    /\ pc = "simulate"
    /\ gt_data_sim' = SimulateGtData(task_actions)
    /\ gt_invoked' = Invocations(task_actions)
    /\ pc' = "score"
    /\ calls' = Append(calls, "collect_diffs")
    /\ UNCHANGED <<sideVars, toolVars, paramVars, loopVars, queueVars, env_actions, sim_done,
                   logVars, agent_final_data, result, exc>>

\* lines 334-353: env.calculate_reward, which leaves the ground truth in
\* env.data, and the result.  Whether the environment writes the ground
\* truth into the dataset object it had (in_place) or binds a new object is
\* its choice; an object shared with the snapshot would show the writes.
Score ==
    /\ pc = "score"
    /\ data' = SimulateGtData(task_actions)
    /\ \E in_place \in BOOLEAN :
          agent_final_data' =
              IF in_place /\ ~agent_final_data.independent
              THEN [agent_final_data EXCEPT !.value = data']
              ELSE agent_final_data
    /\ result' =
           SolveResult(CalculateReward(data, task_actions),
                       Messages(aggregated_response_texts),
                       Info(steps_taken, actions_executed,
                            [reward |-> CalculateReward(data, task_actions)]))
    /\ pc' = "returned"
    /\ calls' = Append(calls, "calculate_reward")
    /\ UNCHANGED <<sideVars, outcome, call, ncalls, paramVars, loopVars, queueVars, env_actions,
                   sim_done, logVars, gt_data_sim, exc, gt_invoked>>

\* line 334: env.calculate_reward raises
ScoreRaise ==
    /\ pc = "score"
    /\ exc' = "reward computation failed"
    /\ pc' = "except"
    /\ calls' = Append(calls, "calculate_reward")
    /\ UNCHANGED <<sideVars, toolVars, paramVars, loopVars, queueVars, env_actions,
                   sim_done, logVars, agent_final_data, gt_data_sim, result,
                   gt_invoked>>

\* lines 355-366: the handler of any exception
Except ==
    /\ pc = "except"
    /\ result' = ExceptResult(exc)
    /\ pc' = "returned"
    /\ UNCHANGED <<sideVars, calls, toolVars, paramVars, loopVars, queueVars, env_actions, sim_done,
                   logVars, agent_final_data, gt_data_sim, exc, gt_invoked>>

Next ==
    \/ \E evt \in TraceEvents : WorkflowTrace(evt)
    \/ \E out \in Outputs : WorkflowOutput(out)
    \/ Start
    \/ StartRaise
    \/ TraceGet
    \/ TraceEnd
    \/ OutGetSilent
    \/ \E res \in RespondResults : OutGetRespond(res)
    \/ OutGetRaise
    \/ OutEnd
    \/ Check
    \/ Snapshot
    \/ Simulate
    \/ Score
    \/ ScoreRaise
    \/ Except

Spec == Init /\ [][Next]_vars

\* the steps of solve itself: none of them blocks (the queues are read with
\* get_nowait), so solve keeps taking steps until it returns
SolveNext ==
    \/ Start \/ StartRaise \/ TraceGet \/ TraceEnd \/ OutGetSilent
    \/ (\E res \in RespondResults : OutGetRespond(res))
    \/ OutGetRaise \/ OutEnd \/ Check \/ Snapshot \/ Simulate \/ Score
    \/ ScoreRaise \/ Except

\* the loop never reads the reference actions of the task (they are read
\* from line 325 on): the runs of one task show whether solve leaves the loop
InitFair == Init /\ task_actions = <<>>

FairSpec == InitFair /\ [][Next]_vars /\ WF_vars(SolveNext)

----------------------------------------------------------------------------
(* agents/fastworkflow_adapter.py: _collect_diffs *)

\* A JSON value carries its Python type: an int [t |-> "int", v |-> 1], a
\* float [t |-> "float", v |-> 1] (a whole number, 1.0), a
\* str [t |-> "str", v |-> <<"a">>] (the pieces of its text), a list
\* [t |-> "list", v |-> <<...>>] and a dict [t |-> "dict", v |-> [k |-> ...]].
PyInt(n) == [t |-> "int", v |-> n]
PyFloat(n) == [t |-> "float", v |-> n]
PyStr(s) == [t |-> "str", v |-> s]
PyList(l) == [t |-> "list", v |-> l]
PyDict(f) == [t |-> "dict", v |-> f]

\* longest list among the compared values
MaxListLen == 2
\* most records the list `diffs` holds when _collect_diffs is called
MaxGiven == 1
\* limit=50 of the call in solve
DiffLimit == 50

\* the keys of the compared dicts, in the order sorted() gives them
KeyOrder == <<"a", "b", "c">>

\* the leaves: two ints, and the str whose text is that of the first int
DiffLeaves == {PyInt(1), PyInt(2), PyStr(<<"1">>)}
DiffLists == {PyList(l) : l \in SeqsUpTo(DiffLeaves, MaxListLen)}
InnerDicts == {PyDict([b |-> x]) : x \in DiffLeaves}
\* the scalars under "c": the leaves, and the float equal to the first int
DiffScalars == DiffLeaves \cup {PyFloat(1)}
DiffValues == DiffLeaves \cup DiffLists \cup InnerDicts

\* the dicts compared: "a" may hold any value, "c" a scalar, either may be
\* missing
TopDicts ==
    { PyDict(f) : f \in UNION { { h \in [ks -> DiffValues \cup DiffScalars] :
                                     /\ "a" \in ks => h["a"] \in DiffValues
                                     /\ "c" \in ks => h["c"] \in DiffScalars } :
                                ks \in SUBSET {"a", "c"} } }

\* the limits of the calls: none, the smallest ones, and that of solve
DiffLimits == {0, 1, 2, DiffLimit}

\* a record an earlier call left in the list
OldRecord == [path |-> <<"z">>, agent |-> PyStr(<<"0">>), gt |-> PyStr(<<"9">>)]

\* sorted(keys)
SortedKeys(keys) == SelectSeq(KeyOrder, LAMBDA k : k \in keys)

\* repr() of a value, as the pieces of its text; a dict is shown in the
\* order of its keys, the order in which the dicts at hand were built
RECURSIVE Repr(_), ReprItems(_), ReprEntries(_, _)
Repr(x) ==
    CASE x.t = "int" -> <<ToString(x.v)>>
      [] x.t = "float" -> <<ToString(x.v), ".0">>
      [] x.t = "str" -> <<"'">> \o x.v \o <<"'">>
      [] x.t = "list" -> <<"[">> \o ReprItems(x.v) \o <<"]">>
      [] x.t = "dict" -> <<"{">> \o ReprEntries(x.v, SortedKeys(DOMAIN x.v)) \o <<"}">>

ReprItems(l) ==
    IF l = <<>> THEN <<>>
    ELSE IF Len(l) = 1 THEN Repr(Head(l))
    ELSE Repr(Head(l)) \o <<", ">> \o ReprItems(Tail(l))

ReprEntries(f, keys) ==
    IF keys = <<>> THEN <<>>
    ELSE <<"'", Head(keys), "'", ": ">> \o Repr(f[Head(keys)])
         \o (IF Len(keys) = 1 THEN <<>> ELSE <<", ">> \o ReprEntries(f, Tail(keys)))

\* str(value): a str is itself, any other value gives the text of its repr
StrOf(x) == IF x.t = "str" THEN x ELSE PyStr(Repr(x))

\* a variant of line 37 that joins without the dot
KeyPathNoDot(path, k) == path \o <<k>>

\* line 37: np = f"{path}.{k}" if path else str(k)
KeyPath(path, k) == IF path # <<>> THEN path \o <<".", k>> ELSE <<k>>

\* line 52: f"{path}[{i}]" if path else f"[{i}]"
IndexPath(path, i) == path \o <<"[", ToString(i), "]">>

\* lines 30 and 55
MismatchRecord(path, a, g) == [path |-> path, agent |-> StrOf(a), gt |-> StrOf(g)]

\* lines 39 and 41
Missing == PyStr(<<"<missing>">>)

\* line 47
LenRecord(path, a, g) ==
    [path |-> path, agent_len |-> PyInt(Len(a.v)), gt_len |-> PyInt(Len(g.v))]

\* a variant of line 54 that takes any two scalars of one type for equal
ScalarsDifferNever(a, g) == FALSE

\* line 54: agent != gt, for two scalars of one type
ScalarsDiffer(a, g) == a # g

\* a variant of line 49 that compares the elements of lists of equal
\* length only
ZipLenEqualOnly(a, g) == IF Len(a) = Len(g) THEN Len(a) ELSE 0

\* line 49: zip(agent, gt) stops at the end of the shorter list
ZipLen(a, g) == IF Len(a) <= Len(g) THEN Len(a) ELSE Len(g)

\* a variant of lines 35 and 50 that never leaves the loop early
LoopNeverStops(ds, lim) == FALSE

\* lines 35 and 50: if len(diffs) >= limit: break
LoopStops(ds, lim) == Len(ds) >= lim

\* _collect_diffs(agent, gt, path, diffs, limit): the list diffs as the call
\* leaves it (the code appends to the list it is given)
RECURSIVE CollectDiffs(_, _, _, _, _), DictLoop(_, _, _, _, _, _),
          ListLoop(_, _, _, _, _, _)
CollectDiffs(a, g, path, ds, lim) ==
    IF Len(ds) >= lim THEN ds
    ELSE IF a.t # g.t THEN Append(ds, MismatchRecord(path, a, g))
    ELSE IF a.t = "dict"
    THEN DictLoop(a, g, SortedKeys(DOMAIN a.v \cup DOMAIN g.v), path, ds, lim)
    ELSE IF a.t = "list"
    THEN ListLoop(a, g, 0, path,
                  IF Len(a.v) # Len(g.v) THEN Append(ds, LenRecord(path, a, g)) ELSE ds,
                  lim)
    ELSE IF ScalarsDiffer(a, g) THEN Append(ds, MismatchRecord(path, a, g))
    ELSE ds

\* lines 34-43: the loop over the sorted keys, from the key at the head on
DictLoop(a, g, keys, path, ds, lim) ==
    IF keys = <<>> \/ LoopStops(ds, lim) THEN ds
    ELSE LET k == Head(keys)
             np == KeyPath(path, k)
         IN  DictLoop(a, g, Tail(keys), path,
                 IF k \notin DOMAIN a.v
                 THEN Append(ds, [path |-> np, agent |-> Missing, gt |-> StrOf(g.v[k])])
                 ELSE IF k \notin DOMAIN g.v
                 THEN Append(ds, [path |-> np, agent |-> StrOf(a.v[k]), gt |-> Missing])
                 ELSE CollectDiffs(a.v[k], g.v[k], np, ds, lim),
                 lim)

\* lines 49-52: the loop over zip(agent, gt), from index i on
ListLoop(a, g, i, path, ds, lim) ==
    IF i >= ZipLen(a.v, g.v) \/ LoopStops(ds, lim) THEN ds
    ELSE ListLoop(a, g, i + 1, path,
                  CollectDiffs(a.v[i + 1], g.v[i + 1], IndexPath(path, i), ds, lim),
                  lim)

\* the tool is not being invoked
ToolOff ==
    /\ data = LoadData
    /\ outcome = NoOutcome /\ call = NoCall /\ ncalls = 0

\* a call of _collect_diffs on two values, with a list that holds no more
\* records than the limit
InitDiff ==
    /\ agent \in TopDicts \cup DiffValues
    /\ gt \in TopDicts \cup DiffValues
    /\ limit \in DiffLimits
    /\ given \in {l \in SeqsUpTo({OldRecord}, MaxGiven) : Len(l) <= limit}
    /\ diffs = given
    /\ dpc = "call"
    /\ ToolOff
    /\ AdapterOff
    /\ CmdOff
    /\ InputOff

\* the call, as solve makes it at line 328: path=""
CollectDiffsCall ==
    /\ dpc = "call"
    /\ diffs' = CollectDiffs(agent, gt, <<>>, diffs, limit)
    /\ dpc' = "done"
    /\ UNCHANGED <<agent, gt, limit, given, toolVars, adapterVars, cmdVars, inputVars>>

NextDiff == CollectDiffsCall

SpecDiff == InitDiff /\ [][NextDiff]_vars

----------------------------------------------------------------------------
(* _commands/*.py: the ResponseGenerator of each command *)

Commands ==
    {"book_reservation", "cancel_reservation", "send_certificate",
     "update_reservation_flights", "update_reservation_baggages",
     "update_reservation_passengers", "get_reservation_details",
     "list_all_airports", "search_onestop_flight"}

\* the tool class the _process_command of a command invokes
ToolOf(c) ==
    CASE c = "book_reservation" -> "BookReservation"
      [] c = "cancel_reservation" -> "CancelReservation"
      [] c = "send_certificate" -> "SendCertificate"
      [] c = "update_reservation_flights" -> "UpdateReservationFlights"
      [] c = "update_reservation_baggages" -> "UpdateReservationBaggages"
      [] c = "update_reservation_passengers" -> "UpdateReservationPassengers"
      [] c = "get_reservation_details" -> "GetReservationDetails"
      [] c = "list_all_airports" -> "ListAllAirports"
      [] c = "search_onestop_flight" -> "SearchOnestopFlight"

\* the parameters the responses depend on
NoParams == [reservation_id |-> "", amount |-> 0]
CertificateAmounts == {100, 150}

ParametersOf(c) ==
    CASE c = "cancel_reservation" ->
             {[reservation_id |-> rid, amount |-> 0] :
                 rid \in ReservationIds \cup {UnknownId}}
      [] c = "send_certificate" ->
             {[reservation_id |-> "", amount |-> a] : a \in CertificateAmounts}
      [] OTHER -> {NoParams}

\* error strings of the tools: the marker "Error:" and a reason
ToolErrors ==
    { NotFoundError,
      <<"Error:", " user not found">>,
      <<"Error:", " payment method not found">> }

\* the JSON text of a reservation whose payment has the amount null
NullAmountPayload ==
    <<"{", "\"user_id\": ", "\"", "mia_li_3668", "\"", ", ",
      "\"payment_history\": ", "[",
      "{", "\"payment_id\": ", "\"", "gift_card_2", "\"", ", ",
      "\"amount\": ", "null", "}",
      "]", ", ", "\"status\": ", "\"", "active", "\"", "}">>

\* what a tool returns when it succeeds: the JSON text of the affected
\* entity, or the sentence of send_certificate
ToolPayloads ==
    { JsonDumps(NewReservation(h)) : h \in SeqsUpTo(Payments, MaxHist) }
    \cup { NullAmountPayload,
           <<"Certificate ", "certificate_3", " added to user ", "mia_li_3668", ".">> }

\* what the tool of a command returns: cancel_reservation runs its tool on
\* the loaded dataset; the other tools return an error string or a payload
ToolResults(c, p) ==
    IF c = "cancel_reservation"
    THEN {CancelInvoke(LoadData, p.reservation_id).value}
    ELSE ToolErrors \cup ToolPayloads

\* update_reservation_flights.py, lines 134-138: an amount that is None or
\* the str "none" in any case becomes 0.0
RECURSIVE FixAmounts(_)
FixAmounts(s) ==
    IF s = <<>> THEN <<>>
    ELSE IF Len(s) >= 2 /\ s[1] = "\"amount\": " /\ s[2] = "null"
    THEN <<s[1], "0.0">> \o FixAmounts(SubSeq(s, 3, Len(s)))
    ELSE IF /\ Len(s) >= 4 /\ s[1] = "\"amount\": " /\ s[2] = "\""
            /\ s[3] \in {"none", "None", "NONE"} /\ s[4] = "\""
    THEN <<s[1], "0.0">> \o FixAmounts(SubSeq(s, 5, Len(s)))
    ELSE <<Head(s)>> \o FixAmounts(Tail(s))

\* update_reservation_flights.py, lines 128-143: a result that starts with
\* "{" and ends with "}" is parsed and, when it has a payment history,
\* written again with its amounts fixed
FlightStatus(res) ==
    IF /\ res # <<>> /\ res[1] = "{" /\ res[Len(res)] = "}"
       /\ \E i \in 1..Len(res) : res[i] = "\"payment_history\": "
    THEN FixAmounts(res)
    ELSE res

\* a variant of Signature.Output(...) that drops the error marker
SignatureOutputNoMarker(c, res) ==
    IF IsError(res) THEN Tail(res)
    ELSE IF c = "update_reservation_flights" THEN FlightStatus(res) ELSE res

\* the field of the Signature.Output that _process_command returns
SignatureOutput(c, res) ==
    IF c = "update_reservation_flights" THEN FlightStatus(res) ELSE res

\* the text a response puts in front of the output
Prefix(c) ==
    CASE c = "book_reservation" -> "Reservation booked successfully: "
      [] c = "cancel_reservation" -> "Cancellation result: "
      [] c = "update_reservation_flights" -> "Response: Flight update result: "
      [] c = "update_reservation_baggages" -> "Response: Baggage update result: "
      [] c = "update_reservation_passengers" -> "Response: Update result: "
      [] c = "get_reservation_details" -> "Response: "
      [] c = "list_all_airports" -> "Available airports: "
      [] c = "search_onestop_flight" -> "One-stop flight search results: "

\* ResponseGenerator.__call__: the text of the CommandResponse
ResponseText(c, p, out) ==
    IF c = "send_certificate"
    THEN IF out # <<>> /\ IsError(out)
         THEN <<"Failed to send certificate: ">> \o out
         ELSE <<"Success! ">> \o out
              \o <<"\n\nA gift certificate worth $", ToString(p.amount),
                   " has been added to the user's payment methods and is ready to use for booking flights.">>
    ELSE <<Prefix(c)>> \o out

InitCmd ==
    /\ command = "" /\ command_parameters = NoParams /\ tool_result = <<>>
    /\ output = <<>> /\ invoked = <<>> /\ response = <<>> /\ cpc = "idle"
    /\ ToolOff
    /\ AdapterOff
    /\ DiffOff
    /\ InputOff

\* _process_command of command c with parameters p: load_data, one invoke
\* of the tool, which returns r, and the Signature.Output
ProcessCommand(c, p, r) ==
    /\ cpc = "idle"
    /\ command' = c
    /\ command_parameters' = p
    /\ invoked' = Append(invoked, ToolOf(c))
    /\ tool_result' = r
    /\ output' = SignatureOutput(c, r)
    /\ cpc' = "processed"
    /\ UNCHANGED <<response, toolVars, adapterVars, diffVars, inputVars>>

\* the rest of __call__: the CommandResponse
Respond ==
    /\ cpc = "processed"
    /\ response' = ResponseText(command, command_parameters, output)
    /\ cpc' = "responded"
    /\ UNCHANGED <<command, command_parameters, tool_result, output, invoked,
                   toolVars, adapterVars, diffVars, inputVars>>

NextCmd ==
    \/ \E c \in Commands : \E p \in ParametersOf(c) : \E r \in ToolResults(c, p) :
          ProcessCommand(c, p, r)
    \/ Respond

SpecCmd == InitCmd /\ [][NextCmd]_vars

----------------------------------------------------------------------------
(* _commands/*.py: the input schemas (pydantic models) of the commands *)

\* A field value is a str, [t |-> "str", v |-> its characters], or None.
PyNone == [t |-> "None", v |-> <<>>]

NOT_FOUND == PyStr(<<"N", "O", "T", "_", "F", "O", "U", "N", "D">>)

Upper == {"A", "B", "C", "D", "E", "F", "G", "H", "I", "J", "K", "L", "M", "N", "O", "P", "Q", "R", "S", "T", "U", "V", "W", "X", "Y", "Z"}
Lower == {"a", "b", "c", "d", "e", "f", "g", "h", "i", "j", "k", "l", "m", "n", "o", "p", "q", "r", "s", "t", "u", "v", "w", "x", "y", "z"}
Digit == {"0", "1", "2", "3", "4", "5", "6", "7", "8", "9"}

\* A pattern is a set of alternatives, an alternative a sequence of items,
\* an item a set of characters repeated min to max times (max = Unbounded
\* for +).  The patterns of the schemas are anchored (^...$).
Unbounded == -1
Rep(chars, lo, hi) == [chars |-> chars, min |-> lo, max |-> hi]
Lit(s) == [i \in 1..Len(s) |-> Rep({s[i]}, 1, 1)]

DatePattern ==
    <<Rep(Digit, 4, 4), Rep({"-"}, 1, 1), Rep(Digit, 2, 2), Rep({"-"}, 1, 1),
      Rep(Digit, 2, 2)>>
ReservationPattern == <<Rep(Upper \cup Digit, 6, 6)>>
AirportPattern == <<Rep(Upper, 3, 3)>>
UserPattern == <<Rep(Lower \cup {"_"} \cup Digit, 1, Unbounded)>>
PaymentPatterns ==
    {Lit(p) \o <<Rep({"_"}, 1, 1), Rep(Digit, 1, Unbounded)>> :
        p \in {<<"c", "r", "e", "d", "i", "t", "_", "c", "a", "r", "d">>,
               <<"g", "i", "f", "t", "_", "c", "a", "r", "d">>,
               <<"c", "e", "r", "t", "i", "f", "i", "c", "a", "t", "e">>}}
CabinPatterns ==
    {Lit(<<"b", "a", "s", "i", "c", "_", "e", "c", "o", "n", "o", "m", "y">>),
     Lit(<<"e", "c", "o", "n", "o", "m", "y">>),
     Lit(<<"b", "u", "s", "i", "n", "e", "s", "s">>)}
FlightTypePatterns ==
    {Lit(<<"o", "n", "e", "_", "w", "a", "y">>), Lit(<<"r", "o", "u", "n", "d", "_", "t", "r", "i", "p">>)}
InsurancePatterns == {Lit(<<"y", "e", "s">>), Lit(<<"n", "o">>)}
SentinelPattern == Lit(NOT_FOUND.v)
\* a field declared without pattern
NoPattern == {<<Rep(Upper \cup Lower \cup Digit \cup {"_", "-"}, 0, Unbounded)>>}

\* re.match of an anchored alternative against the characters s
RECURSIVE MatchItems(_, _)
MatchItems(items, s) ==
    IF items = <<>> THEN s = <<>>
    ELSE LET it == Head(items)
             most == IF it.max = Unbounded \/ it.max > Len(s) THEN Len(s) ELSE it.max
         IN  \E k \in it.min..most :
                /\ \A i \in 1..k : s[i] \in it.chars
                /\ MatchItems(Tail(items), SubSeq(s, k + 1, Len(s)))

\* the pattern constraint of pydantic: a str that matches one alternative
Matches(pattern, value) ==
    /\ value.t = "str"
    /\ \E alt \in pattern : MatchItems(alt, value.v)

\* the optional string fields: those declared with a default
Field(m, f, d, p) ==
    [model |-> m, field |-> f, optional |-> FALSE, default |-> d, pattern |-> p]
\* a field declared Optional[str]
OptionalField(m, f, d, p) == [Field(m, f, d, p) EXCEPT !.optional = TRUE]
InputFields ==
    {OptionalField("book_reservation.PassengerInfo", "dob", NOT_FOUND,
           {DatePattern, SentinelPattern}),
     Field("book_reservation.Input", "user_id", NOT_FOUND, NoPattern),
     Field("book_reservation.Input", "origin", NOT_FOUND,
           {SentinelPattern, AirportPattern}),
     Field("book_reservation.Input", "destination", NOT_FOUND,
           {SentinelPattern, AirportPattern}),
     Field("book_reservation.Input", "flight_type", NOT_FOUND,
           {SentinelPattern} \cup FlightTypePatterns),
     Field("book_reservation.Input", "cabin", NOT_FOUND,
           {SentinelPattern} \cup CabinPatterns),
     Field("book_reservation.Input", "insurance", NOT_FOUND,
           {SentinelPattern} \cup InsurancePatterns),
     Field("cancel_reservation.Input", "reservation_id", NOT_FOUND,
           {ReservationPattern, SentinelPattern}),
     Field("get_reservation_details.Input", "reservation_id", NOT_FOUND,
           {ReservationPattern, SentinelPattern}),
     Field("search_onestop_flight.Input", "origin", NOT_FOUND,
           {SentinelPattern, AirportPattern}),
     Field("search_onestop_flight.Input", "destination", NOT_FOUND,
           {SentinelPattern, AirportPattern}),
     Field("search_onestop_flight.Input", "date", NOT_FOUND,
           {SentinelPattern, DatePattern}),
     Field("send_certificate.Input", "user_id", NOT_FOUND,
           {UserPattern, SentinelPattern}),
     Field("update_reservation_baggages.Input", "reservation_id", NOT_FOUND,
           {ReservationPattern, SentinelPattern}),
     Field("update_reservation_baggages.Input", "payment_id", NOT_FOUND,
           PaymentPatterns \cup {SentinelPattern}),
     Field("update_reservation_flights.Input", "reservation_id", NOT_FOUND,
           {ReservationPattern, SentinelPattern}),
     Field("update_reservation_flights.Input", "cabin",
           PyStr(<<"e", "c", "o", "n", "o", "m", "y">>), CabinPatterns),
     Field("update_reservation_flights.Input", "payment_id", NOT_FOUND,
           PaymentPatterns \cup {SentinelPattern}),
     OptionalField("update_reservation_passengers.PassengerInfo", "dob", PyNone,
           {DatePattern}),
     Field("update_reservation_passengers.Input", "reservation_id", NOT_FOUND,
           {ReservationPattern, SentinelPattern})}

\* the values a caller supplies for a field
SuppliedValues ==
    {NOT_FOUND, PyNone,
     PyStr(<<"4", "W", "Q", "1", "5", "0">>),
     PyStr(<<"2", "0", "2", "4", "-", "0", "5", "-", "1", "6">>),
     PyStr(<<"J", "F", "K">>),
     PyStr(<<"e", "c", "o", "n", "o", "m", "y">>),
     PyStr(<<"o", "n", "e", "_", "w", "a", "y">>),
     PyStr(<<"y", "e", "s">>),
     PyStr(<<"m", "i", "a", "_", "l", "i", "_", "3", "6", "6", "8">>),
     PyStr(<<"g", "i", "f", "t", "_", "c", "a", "r", "d", "_", "4", "4">>),
     PyStr(<<"n", "o", "t", "_", "f", "o", "u", "n", "d">>)}

InitInput ==
    /\ input_field \in InputFields
    /\ supplied = Omitted
    /\ field_value = NoValue
    /\ ipc = "ready"
    /\ ToolOff
    /\ AdapterOff
    /\ DiffOff
    /\ CmdOff

\* the model is built without the field: pydantic assigns the default,
\* which it does not validate
BuildOmitted ==
    /\ ipc = "ready"
    /\ supplied' = Omitted
    /\ field_value' = input_field.default
    /\ ipc' = "built"
    /\ UNCHANGED <<input_field, toolVars, adapterVars, diffVars, cmdVars>>

\* the model is built with value v for the field: v is validated against
\* the pattern; None passes for an Optional[str] field only
BuildSupplied(v) ==
    /\ ipc = "ready"
    /\ supplied' = v
    /\ IF \/ Matches(input_field.pattern, v)
          \/ (v = PyNone /\ input_field.optional)
       THEN field_value' = v /\ ipc' = "built"
       ELSE field_value' = NoValue /\ ipc' = "rejected"
    /\ UNCHANGED <<input_field, toolVars, adapterVars, diffVars, cmdVars>>

NextInput ==
    \/ BuildOmitted
    \/ \E v \in SuppliedValues : BuildSupplied(v)

SpecInput == InitInput /\ [][NextInput]_vars

----------------------------------------------------------------------------
(* Properties of the cancellation tool, checked under SpecTool *)

RECURSIVE SumAmounts(_)
SumAmounts(h) == IF h = <<>> THEN 0 ELSE Head(h).amount + SumAmounts(Tail(h))

IsPrefix(s, t) == Len(s) <= Len(t) /\ \A i \in 1..Len(s) : t[i] = s[i]

\* the last invocation named a reservation of the dataset it was given
CalledPresent == ncalls > 0 /\ call.reservation_id \in DOMAIN call.before.reservations
\* the last invocation named an id that is no key of the dataset it was given
CalledAbsent == ncalls > 0 /\ call.reservation_id \notin DOMAIN call.before.reservations
HistoryBefore == call.before.reservations[call.reservation_id].payment_history
HistoryAfter == data.reservations[call.reservation_id].payment_history
\* the last invocation cancelled a reservation (it returned, and not an error)
Cancelled == CalledPresent /\ WellFormedHistory(HistoryBefore)

\* C1: a cancellation of a reservation of the dataset doubles the length of
\* its payment history, and the amounts of the resulting history sum to zero.
C1_DoubledAndZeroSum ==
    Cancelled =>
        /\ Len(HistoryAfter) = 2 * Len(HistoryBefore)
        /\ SumAmounts(HistoryAfter) = 0

C1_Witness ==
    /\ Cancelled
    /\ Len(HistoryBefore) = 2
    /\ Len(HistoryAfter) = 4
    /\ SumAmounts(HistoryBefore) = 125

\* C2: invoked with an id that is no key of the reservations, the tool
\* returns exactly "Error: reservation not found" and leaves the whole
\* dataset as it was.
C2_AbsentIsErrorAndUnchanged ==
    CalledAbsent =>
        /\ outcome = [kind |-> "return", value |-> <<"Error:", " reservation not found">>]
        /\ data = call.before

C2_Witness ==
    /\ CalledAbsent
    /\ call.reservation_id = UnknownId
    /\ DOMAIN data.reservations = ReservationIds
    /\ outcome.kind = "return"

\* C3: invoking the tool a second time with the same reservation id leaves
\* the dataset as the first invocation left it.
C3_Idempotent ==
    [][(ncalls >= 1 /\ call'.reservation_id = call.reservation_id) => data' = data]_vars

\* C4: a cancellation keeps the n original entries in place and order,
\* makes entry n+i the refund of entry i (same payment_id, negated amount),
\* and sets the status to "cancelled".
C4_RefundsMirrorPayments ==
    Cancelled =>
        LET n == Len(HistoryBefore)
        IN  /\ Len(HistoryAfter) = 2 * n
            /\ \A i \in 1..n :
                  /\ HistoryAfter[i] = HistoryBefore[i]
                  /\ HistoryAfter[n + i].payment_id = HistoryBefore[i].payment_id
                  /\ HistoryAfter[n + i].amount = 0 - HistoryBefore[i].amount
            /\ data.reservations[call.reservation_id].status = "cancelled"

\* the scenario of the specification, and a history with two different payments
C4_Witness ==
    /\ Cancelled
    /\ call.reservation_id = "4WQ150"
    /\ \/ /\ HistoryBefore = <<[payment_id |-> "credit_card_1", amount |-> 100]>>
          /\ HistoryAfter = <<[payment_id |-> "credit_card_1", amount |-> 100],
                              [payment_id |-> "credit_card_1", amount |-> -100]>>
          /\ ncalls = 3
       \/ /\ Len(HistoryBefore) = 2
          /\ HistoryBefore[1].payment_id # HistoryBefore[2].payment_id
          /\ HistoryBefore[1].amount # HistoryBefore[2].amount
          /\ ncalls = 3

\* C5: whatever the invocation (successful, failing or raising, on any id),
\* every reservation's payment history before it is a prefix of its history
\* after it, and the keys of the reservations stay the same.
C5_AppendOnly ==
    ncalls > 0 =>
        /\ DOMAIN data.reservations = DOMAIN call.before.reservations
        /\ \A r \in DOMAIN call.before.reservations :
              IsPrefix(call.before.reservations[r].payment_history,
                       data.reservations[r].payment_history)

C5_Witness ==
    /\ ncalls = 3
    /\ Cancelled
    /\ Len(HistoryBefore) = 4
    /\ Len(HistoryAfter) = 8
    /\ HistoryBefore[1].payment_id # HistoryBefore[2].payment_id

\* C6: on a well-formed dataset the tool does not raise; it returns a string
\* that begins with the error marker exactly when the id is absent, and
\* otherwise the JSON text of the updated reservation, which begins with "{".
C6_ErrorOrPayload ==
    (ncalls > 0 /\ WellFormed(call.before)) =>
        /\ outcome.kind = "return"
        /\ IsError(outcome.value) <=> CalledAbsent
        /\ CalledPresent =>
              /\ outcome.value = JsonDumps(data.reservations[call.reservation_id])
              /\ outcome.value[1] = "{"
        /\ CalledAbsent => outcome.value[1] = "Error:"

C6_Witness ==
    /\ ncalls > 0
    /\ WellFormed(call.before)
    /\ CalledPresent
    /\ Len(HistoryBefore) > 0
    /\ outcome.kind = "return"
    /\ ~IsError(outcome.value)

\* C23: a cancellation changes nothing but the payment history and the
\* status of the reservation it names: the other fields of that
\* reservation, every other reservation, the users with their balances and
\* the flights are as they were, and the dataset has the same keys.
C23_OnlyTargetChanges ==
    Cancelled =>
        LET rid == call.reservation_id
            before == call.before
        IN  /\ DOMAIN data = DOMAIN before
            /\ data.users = before.users
            /\ data.flights = before.flights
            /\ DOMAIN data.reservations = DOMAIN before.reservations
            /\ \A r \in DOMAIN before.reservations \ {rid} :
                  data.reservations[r] = before.reservations[r]
            /\ DOMAIN data.reservations[rid] = DOMAIN before.reservations[rid]
            /\ \A f \in DOMAIN before.reservations[rid] \ {"payment_history", "status"} :
                  data.reservations[rid][f] = before.reservations[rid][f]

\* a cancellation that changed history and status of its reservation,
\* in a dataset with another reservation that has payments
C23_Witness ==
    /\ Cancelled
    /\ HistoryAfter # HistoryBefore
    /\ call.before.reservations[call.reservation_id].status = "active"
    /\ data.reservations[call.reservation_id].status = "cancelled"
    /\ \E r \in DOMAIN data.reservations \ {call.reservation_id} :
          data.reservations[r].payment_history # <<>>

----------------------------------------------------------------------------
(* Properties of the interaction loop of solve *)

\* neither queue has yielded anything: the workflow process stayed silent
Silent == emitted = [trace |-> 0, output |-> 0]

C8_LoopBounded ==
    /\ [](/\ iter <= max_num_steps
          /\ processed <= 200
          /\ (max_num_steps = 0 => (pc \notin {"trace", "out", "check"} /\ ndeq = 0)))
    /\ [][(pc \in {"trace", "out", "check"} /\ pc' \notin {"trace", "out", "check"})
             => pc' \in {"snapshot", "except"}]_vars
    /\ <>(pc \in {"snapshot", "except"})

\* the loop ran out of iterations with work left on both queues, without
\* done and short of the idle limit
C8_Witness ==
    /\ pc = "snapshot"
    /\ max_num_steps = 1
    /\ iter = 1
    /\ ~sim_done
    /\ idle_cycles = 0
    /\ trace_q # <<>>
    /\ output_q # <<>>

\* C9: the idle counter goes up by one at the end of an iteration that took
\* nothing off either queue and back to zero at the end of an iteration that
\* took at least one item, whatever the item; no other step changes it; it
\* never exceeds 150, and no iteration runs once it has reached 150.
C9_IdleCounter ==
    /\ [](/\ idle_cycles <= 150
          /\ (pc \in {"trace", "out", "check"} => idle_cycles < 150))
    /\ [][/\ ((pc = "check" /\ pc' # "check") =>
                 idle_cycles' = (IF polled = 0 THEN idle_cycles + 1 ELSE 0))
           /\ ((pc # "check" \/ pc' = "check") => idle_cycles' = idle_cycles)
           /\ ((idle_cycles' >= 150 /\ idle_cycles < 150) => pc' = "snapshot")]_vars

\* an idle iteration, then an iteration whose only item is one the adapter
\* ignores, then 150 idle iterations
C9_Witness ==
    /\ pc = "snapshot"
    /\ idle_cycles = 150
    /\ iter = 152
    /\ ndeq = 1
    /\ env_actions = <<>>
    /\ aggregated_response_texts = <<>>

\* C10: once a respond step has returned done, nothing more is taken off
\* either queue, no step is issued to the environment and no iteration
\* starts: solve goes from the end of that iteration to the reward (and to
\* the exception handler if computing the reward raises).
C10_DoneEndsLoop ==
    /\ [](sim_done =>
            pc \in {"check", "snapshot", "simulate", "score", "except", "returned"})
    /\ [][sim_done =>
             /\ ndeq' = ndeq
             /\ trace_q' \in {trace_q} \cup {Append(trace_q, e) : e \in TraceEvents}
             /\ output_q' \in {output_q} \cup {Append(output_q, o) : o \in Outputs}
             /\ env_actions' = env_actions
             /\ iter' = iter
             /\ (pc = "check" => pc' \in {"check", "snapshot"})]_vars

\* done arrived with items left on both queues and iterations left
C10_Witness ==
    /\ sim_done
    /\ pc = "returned"
    /\ trace_q # <<>>
    /\ output_q # <<>>
    /\ iter < max_num_steps
    /\ idle_cycles = 0

----------------------------------------------------------------------------
(* Properties of the two drains *)

IsToolStep(a) == a.name # "respond"
IsRespondStep(a) == a.name = "respond"
\* the tool steps issued to the environment, in order
ToolSteps(steps) == SelectSeq(steps, IsToolStep)
\* the respond steps issued to the environment, in order
RespondSteps(steps) == SelectSeq(steps, IsRespondStep)

\* the event did not come from the agent and names a command
C11_IsToolEvent(e) == e.direction # "AGENT_TO_WORKFLOW" /\ e.command_name # ""

\* the tool steps a sequence of dequeued events calls for, in their order
RECURSIVE C11_Expected(_)
C11_Expected(log) ==
    IF log = <<>> THEN <<>>
    ELSE LET e == Head(log)
         IN  (IF C11_IsToolEvent(e)
              THEN <<[name |-> e.command_name,
                      kwargs |-> IF "None" \in DOMAIN e.parameters
                                 THEN <<>> ELSE e.parameters]>>
              ELSE <<>>)
             \o C11_Expected(Tail(log))

\* C11: every dequeued trace event that is not agent-originated and has a
\* command name gives exactly one executed-actions record and one tool step
\* with its name and parameters, every other event gives none, and both
\* lists follow the order in which the events were dequeued.
C11_MirrorsInOrder ==
    /\ Len(trace_log) = emitted.trace - Len(trace_q)
    /\ ToolSteps(env_actions) = C11_Expected(trace_log)
    /\ Len(actions_executed) = Len(C11_Expected(trace_log))
    /\ \A i \in 1..Len(actions_executed) :
          [name |-> actions_executed[i].name, kwargs |-> actions_executed[i].kwargs]
              = C11_Expected(trace_log)[i]

\* two different commands were mirrored in the order of their events, with
\* an agent-originated event between them
C11_Witness ==
    /\ Len(trace_log) = 3
    /\ trace_log[1].command_name = "list_all_airports"
    /\ trace_log[2].direction = "AGENT_TO_WORKFLOW"
    /\ trace_log[3].command_name = "cancel_reservation"
    /\ trace_log[3].direction # "AGENT_TO_WORKFLOW"
    /\ Len(actions_executed) = 2
    /\ actions_executed[1].name = "list_all_airports"
    /\ actions_executed[1].kwargs = <<>>
    /\ actions_executed[2].kwargs = [reservation_id |-> "4WQ150"]

\* the output carries a response that is not blank
C12_HasText(out) ==
    \E i \in 1..Len(out.command_responses) :
        out.command_responses[i] \notin {"", "   "}

\* the dequeued outputs that carry text, in order
RECURSIVE C12_Asked(_)
C12_Asked(log) ==
    IF log = <<>> THEN <<>>
    ELSE (IF C12_HasText(Head(log).out) THEN <<Head(log)>> ELSE <<>>)
         \o C12_Asked(Tail(log))

\* the non-empty replies the simulator gave to the outputs with text, in order
RECURSIVE C12_Replies(_)
C12_Replies(log) ==
    IF log = <<>> THEN <<>>
    ELSE (IF C12_HasText(Head(log).out) /\ Head(log).res.observation # ""
          THEN <<Head(log).res.observation>> ELSE <<>>)
         \o C12_Replies(Tail(log))

\* C12: every dequeued output with text gives exactly one respond step, and
\* the simulator's reply, when not empty, is put on the user-message queue
\* once, also when the step signals done; an output without text gives
\* neither.  So replies put <= respond steps <= outputs dequeued.
C12_RespondAndReply ==
    /\ Len(out_log) = emitted.output - Len(output_q)
    /\ Len(RespondSteps(env_actions)) = Len(C12_Asked(out_log))
    /\ \A i \in 1..Len(RespondSteps(env_actions)) :
          RespondSteps(env_actions)[i].kwargs.content
              = Join(AgentTexts(C12_Asked(out_log)[i].out.command_responses))
    /\ user_q = C12_Replies(out_log)
    /\ Len(user_q) <= Len(RespondSteps(env_actions))
    /\ Len(RespondSteps(env_actions)) <= Len(out_log)

\* a blank output, an output answered with an empty reply, and an output
\* whose respond step gave a reply together with done
C12_Witness ==
    /\ Len(out_log) = 3
    /\ ~C12_HasText(out_log[1].out)
    /\ C12_HasText(out_log[2].out)
    /\ out_log[2].res = [observation |-> "", done |-> FALSE]
    /\ out_log[3].res = [observation |-> "Cancel 4WQ150 please", done |-> TRUE]
    /\ user_q = <<"Cancel 4WQ150 please">>
    /\ Len(RespondSteps(env_actions)) = 2

----------------------------------------------------------------------------
(* Properties of the result of solve *)

\* C13: an exception raised during the initialization, the loop (inside
\* env.step) or the reward computation takes solve to its handler, and solve
\* returns reward 0.0, the system message alone and the exception message
\* under "error".
C13_ExceptionGivesFallback ==
    /\ (exc # "" => pc \in {"except", "returned"})
    /\ (pc = "except" => exc # "")
    /\ ((pc = "returned" /\ exc # "") =>
           result = [reward |-> 0,
                     messages |-> <<[role |-> "system", content |-> "wiki"]>>,
                     info |-> [error |-> exc]])

\* the reward computation raised after the loop had mirrored a command and
\* forwarded a question
C13_Witness ==
    /\ pc = "returned"
    /\ exc = "reward computation failed"
    /\ actions_executed # <<>>
    /\ aggregated_response_texts # <<>>
    /\ agent_final_data.taken
    /\ result.reward = 0

\* C14 as stated: whatever ended the run, the result has a reward, a
\* transcript and a diagnostics dictionary with the step count, the
\* executed actions and the reward breakdown.
C14_DiagnosticsAlways ==
    pc = "returned" =>
        /\ DOMAIN result = {"reward", "messages", "info"}
        /\ {"steps", "executed_actions", "reward_info"} \subseteq DOMAIN result.info

\* C14 as amended: the result always has a reward, a transcript of
\* role-tagged messages and a diagnostics dictionary; after a run that ended
\* by done, idle patience or the iteration budget the dictionary holds the
\* task index, the step count (the items dequeued), the executed actions and
\* the reward breakdown; after an exception it holds the message under
\* "error" and nothing else.
C14_ResultShape ==
    pc = "returned" =>
        /\ DOMAIN result = {"reward", "messages", "info"}
        /\ result.reward \in {0, 1}
        /\ \A i \in 1..Len(result.messages) :
              /\ DOMAIN result.messages[i] = {"role", "content"}
              /\ result.messages[i].role \in {"system", "user", "assistant"}
        /\ IF exc = ""
           THEN /\ DOMAIN result.info =
                       {"task_index", "steps", "executed_actions", "reward_info"}
                /\ result.info.steps = ndeq
                /\ result.info.executed_actions = actions_executed
                /\ result.info.reward_info.reward = result.reward
           ELSE DOMAIN result.info = {"error"}

\* the iteration budget ended a run that had made progress
C14_Witness ==
    /\ pc = "returned"
    /\ exc = ""
    /\ ~sim_done
    /\ idle_cycles < 150
    /\ max_num_steps > 0
    /\ iter = max_num_steps
    /\ result.info.steps = 3
    /\ Len(result.info.executed_actions) = 2
    /\ Len(result.messages) = 3

----------------------------------------------------------------------------
(* Properties of the reward computation *)

\* the replay applies the action: it is not terminal and names a tool
C15_Applies(a) ==
    /\ a.name # "transfer_to_human_agents"
    /\ a.name \in {"cancel_reservation", "transfer_to_human_agents"}

\* the number of reference actions that cancel reservation r
C15_Cancellations(r) ==
    Cardinality({ i \in 1..Len(task_actions) :
                    /\ C15_Applies(task_actions[i])
                    /\ task_actions[i].name = "cancel_reservation"
                    /\ DOMAIN task_actions[i].kwargs = {"reservation_id"}
                    /\ task_actions[i].kwargs.reservation_id = r })

\* C15: the replay starts from a freshly loaded dataset, invokes the tool of
\* every reference action that is neither terminal nor unknown, once and in
\* order, goes on after an action that raises (each cancellation that
\* succeeds doubles the history of its reservation), and leaves env.data as
\* it was when the loop ended.
C15_ReplaySkipsAndSuppresses ==
    pc = "score" =>
        /\ gt_invoked = SelectSeq(task_actions, C15_Applies)
        /\ DOMAIN gt_data_sim.reservations = DOMAIN LoadData.reservations
        /\ \A r \in DOMAIN LoadData.reservations :
              /\ Len(gt_data_sim.reservations[r].payment_history)
                    = Len(LoadData.reservations[r].payment_history)
                          * 2 ^ C15_Cancellations(r)
              /\ gt_data_sim.reservations[r].status
                    = (IF C15_Cancellations(r) > 0 THEN "cancelled" ELSE "active")
        /\ data = agent_final_data.value

\* a terminal action, an unknown tool and a raising cancellation came before
\* the cancellation that was applied, and env.data still is the agent's
C15_Witness ==
    /\ pc = "score"
    /\ Len(task_actions) = 4
    /\ Len(gt_invoked) = 2
    /\ "booking_id" \in DOMAIN gt_invoked[1].kwargs
    /\ gt_data_sim.reservations["4WQ150"].status = "cancelled"
    /\ gt_data_sim.reservations["ZFA04Y"].status = "active"
    /\ data.reservations["4WQ150"].status = "active"
    /\ actions_executed # <<>>

\* the dataset the mirrored tool steps leave, from the loaded one
RECURSIVE C16_Applied(_, _)
C16_Applied(d, steps) ==
    IF steps = <<>> THEN d
    ELSE C16_Applied(InvokeTool(d, Head(steps)), Tail(steps))

\* C16: the snapshot of the agent's final dataset is taken after the loop
\* and before the replay and env.calculate_reward, and keeps the value the
\* agent's tool steps left, whatever is written to env.data afterwards.
C16_SnapshotIndependent ==
    /\ (pc \in {"start", "trace", "out", "check", "snapshot"} =>
           /\ ~agent_final_data.taken
           /\ gt_data_sim = NoData
           /\ result = NoResult)
    /\ (pc \in {"simulate", "score"} => agent_final_data.taken)
    /\ (pc = "simulate" => gt_data_sim = NoData)
    /\ (agent_final_data.taken =>
           agent_final_data.value = C16_Applied(LoadData, ToolSteps(env_actions)))

\* the agent cancelled a reservation, the task has no reference action, and
\* env.calculate_reward has put the ground truth into env.data
C16_Witness ==
    /\ pc = "returned"
    /\ exc = ""
    /\ agent_final_data.taken
    /\ agent_final_data.value.reservations["4WQ150"].status = "cancelled"
    /\ data = LoadData
    /\ data # agent_final_data.value

----------------------------------------------------------------------------
(* Properties of _collect_diffs, checked under SpecDiff *)

\* the leaves of a value, each with its dot/bracket path
RECURSIVE C17_Leaves(_, _)
C17_Leaves(x, path) ==
    IF x.t = "dict"
    THEN UNION { C17_Leaves(x.v[k], IF path = <<>> THEN <<k>> ELSE path \o <<".", k>>) :
                   k \in DOMAIN x.v }
    ELSE IF x.t = "list"
    THEN UNION { C17_Leaves(x.v[i], path \o <<"[", ToString(i - 1), "]">>) :
                   i \in 1..Len(x.v) }
    ELSE {[path |-> path, leaf |-> x]}

\* the containers of a value, each with its path, type and size or keys
RECURSIVE C17_Shape(_, _)
C17_Shape(x, path) ==
    IF x.t = "dict"
    THEN {[path |-> path, t |-> "dict", n |-> Cardinality(DOMAIN x.v)]}
         \cup {[path |-> path \o <<k>>, t |-> "key", n |-> 0] : k \in DOMAIN x.v}
         \cup UNION { C17_Shape(x.v[k], IF path = <<>> THEN <<k>> ELSE path \o <<".", k>>) :
                        k \in DOMAIN x.v }
    ELSE IF x.t = "list"
    THEN {[path |-> path, t |-> "list", n |-> Len(x.v)]}
         \cup UNION { C17_Shape(x.v[i], path \o <<"[", ToString(i - 1), "]">>) :
                        i \in 1..Len(x.v) }
    ELSE {[path |-> path, t |-> "leaf", n |-> 0]}

\* the two dictionaries have the same keys and list lengths all the way
\* down and differ in the value of exactly one leaf
C17_OneLeafDiffers ==
    /\ agent.t = "dict" /\ gt.t = "dict"
    /\ C17_Shape(agent, <<>>) = C17_Shape(gt, <<>>)
    /\ Cardinality(C17_Leaves(agent, <<>>) \ C17_Leaves(gt, <<>>)) = 1

C17_AgentLeaf == CHOOSE l \in C17_Leaves(agent, <<>>) \ C17_Leaves(gt, <<>>) : TRUE
C17_GtLeaf == CHOOSE l \in C17_Leaves(gt, <<>>) \ C17_Leaves(agent, <<>>) : TRUE

\* the text str() gives for a leaf, as a str
C17_Shown(leaf) ==
    CASE leaf.t = "int" -> [t |-> "str", v |-> <<ToString(leaf.v)>>]
      [] leaf.t = "float" -> [t |-> "str", v |-> <<ToString(leaf.v), ".0">>]
      [] OTHER -> leaf

\* the call was given an empty list and a limit of at least one record
C17_FreshCall == dpc = "done" /\ given = <<>> /\ limit >= 1

\* C17 as stated: identical dictionaries give no record; dictionaries that
\* differ in one leaf give exactly one record, with the path of the leaf
\* and the two differing values as its agent and gt fields.
C17_OneRecordWithValues ==
    C17_FreshCall =>
        /\ (agent.t = "dict" /\ agent = gt) => diffs = <<>>
        /\ C17_OneLeafDiffers =>
              diffs = <<[path |-> C17_AgentLeaf.path,
                         agent |-> C17_AgentLeaf.leaf,
                         gt |-> C17_GtLeaf.leaf]>>

\* C17 as amended: identical dictionaries give no record; dictionaries that
\* differ in one leaf give exactly one record, with the dot/bracket path of
\* the leaf, whose agent and gt fields are the str() texts of the two
\* values (equal texts when the leaves differ in type only, as 1 and "1").
C17_OneRecordWithTexts ==
    C17_FreshCall =>
        /\ (agent.t = "dict" /\ agent = gt) => diffs = <<>>
        /\ C17_OneLeafDiffers =>
              diffs = <<[path |-> C17_AgentLeaf.path,
                         agent |-> C17_Shown(C17_AgentLeaf.leaf),
                         gt |-> C17_Shown(C17_GtLeaf.leaf)]>>

\* the second element of the list under "a" is 2 for the agent and the str
\* "1" in the ground truth, next to an equal leaf under "c"
C17_Witness ==
    /\ C17_FreshCall
    /\ limit = 50
    /\ C17_OneLeafDiffers
    /\ "c" \in DOMAIN agent.v
    /\ C17_AgentLeaf = [path |-> <<"a", "[", "1", "]">>, leaf |-> [t |-> "int", v |-> 2]]
    /\ C17_GtLeaf.leaf = [t |-> "str", v |-> <<"1">>]
    /\ diffs = <<[path |-> <<"a", "[", "1", "]">>,
                  agent |-> [t |-> "str", v |-> <<"2">>],
                  gt |-> [t |-> "str", v |-> <<"1">>]]>>

\* C18: a call given a list of at most limit records leaves at most limit
\* records in it; the call only appends, so the list held no more than that
\* at any depth of the recursion either.
C18_Capped ==
    /\ Len(given) <= limit
    /\ dpc = "done" =>
          /\ Len(diffs) <= limit
          /\ Len(given) <= Len(diffs)
          /\ \A i \in 1..Len(given) : diffs[i] = given[i]

\* the values differ under both keys and in a list length, and the cap of
\* two records, one of them already in the list, cut the diff short
C18_Witness ==
    /\ dpc = "done"
    /\ limit = 2
    /\ Len(given) = 1
    /\ Len(diffs) = 2
    /\ agent.t = "dict" /\ gt.t = "dict"
    /\ DOMAIN agent.v = {"a", "c"} /\ DOMAIN gt.v = {"a", "c"}
    /\ agent.v["a"].t = "list" /\ gt.v["a"].t = "list"
    /\ Len(agent.v["a"].v) # Len(gt.v["a"].v)
    /\ agent.v["c"] # gt.v["c"]
    /\ "agent_len" \in DOMAIN diffs[2]

\* the two lists a call compares at the top (path "") or under the key
\* "a" of two dicts, with that path
C24_ListsCompared ==
    \/ agent.t = "list" /\ gt.t = "list"
    \/ /\ agent.t = "dict" /\ gt.t = "dict"
       /\ "a" \in DOMAIN agent.v /\ "a" \in DOMAIN gt.v
       /\ agent.v["a"].t = "list" /\ gt.v["a"].t = "list"
C24_AgentList == IF agent.t = "list" THEN agent.v ELSE agent.v["a"].v
C24_GtList == IF gt.t = "list" THEN gt.v ELSE gt.v["a"].v
C24_Path == IF agent.t = "list" THEN <<>> ELSE <<"a">>

\* the records the call added at the path of the lists and below it
C24_Records ==
    SelectSeq(SubSeq(diffs, Len(given) + 1, Len(diffs)),
              LAMBDA r : IsPrefix(C24_Path, r.path))

\* the records of the elements both lists have, from index i on: one for
\* each pair of unequal elements, at the bracket path of the index
RECURSIVE C24_PrefixRecords(_)
C24_PrefixRecords(i) ==
    IF i >= Len(C24_AgentList) \/ i >= Len(C24_GtList) THEN <<>>
    ELSE (IF C24_AgentList[i + 1] # C24_GtList[i + 1]
          THEN <<[path |-> C24_Path \o <<"[", ToString(i), "]">>,
                  agent |-> C17_Shown(C24_AgentList[i + 1]),
                  gt |-> C17_Shown(C24_GtList[i + 1])]>>
          ELSE <<>>)
         \o C24_PrefixRecords(i + 1)

\* C24: a call that stays below the cap and compares two lists of
\* different lengths adds one record with the path of the lists and both
\* lengths, then one record for each pair of unequal elements at the
\* indexes both lists have, and nothing for the elements beyond the
\* shorter list.
C24_LengthRecordAndPrefix ==
    (/\ dpc = "done" /\ Len(diffs) < limit
     /\ C24_ListsCompared
     /\ Len(C24_AgentList) # Len(C24_GtList)) =>
        C24_Records =
            <<[path |-> C24_Path,
               agent_len |-> [t |-> "int", v |-> Len(C24_AgentList)],
               gt_len |-> [t |-> "int", v |-> Len(C24_GtList)]]>>
            \o C24_PrefixRecords(0)

\* a list of two elements against a list of one, whose elements at index
\* 0 differ: the length record, then the record of index 0
C24_Witness ==
    /\ dpc = "done" /\ limit = 50 /\ given = <<>>
    /\ agent = [t |-> "list", v |-> <<[t |-> "int", v |-> 1], [t |-> "int", v |-> 2]>>]
    /\ gt = [t |-> "list", v |-> <<[t |-> "int", v |-> 2]>>]
    /\ Len(diffs) = 2
    /\ diffs[1].path = <<>>
    /\ diffs[1].agent_len.v = 2 /\ diffs[1].gt_len.v = 1
    /\ diffs[2].path = <<"[", "0", "]">>

\* Python's == on two values: numbers are equal by value whatever their
\* type (1 == 1.0), strs by text, lists and dicts element by element
RECURSIVE C25_DeepEqual(_, _)
C25_DeepEqual(a, g) ==
    IF a.t \in {"int", "float"} /\ g.t \in {"int", "float"} THEN a.v = g.v
    ELSE IF a.t # g.t THEN FALSE
    ELSE IF a.t = "str" THEN a.v = g.v
    ELSE IF a.t = "list"
    THEN /\ Len(a.v) = Len(g.v)
         /\ \A i \in 1..Len(a.v) : C25_DeepEqual(a.v[i], g.v[i])
    ELSE /\ DOMAIN a.v = DOMAIN g.v
         /\ \A k \in DOMAIN a.v : C25_DeepEqual(a.v[k], g.v[k])

\* the call was given an empty list and left fewer records than the limit
C25_BelowCap == dpc = "done" /\ given = <<>> /\ Len(diffs) < limit

\* every key that one of two compared dicts lacks has exactly one record,
\* at the path of the key, with "<missing>" on the side that lacks it
C25_MissingKeys ==
    (agent.t = "dict" /\ gt.t = "dict") =>
        \A k \in (DOMAIN agent.v \cup DOMAIN gt.v) \ (DOMAIN agent.v \cap DOMAIN gt.v) :
            LET recs == {i \in 1..Len(diffs) : diffs[i].path = <<k>>}
                missing == [t |-> "str", v |-> <<"<missing>">>]
            IN  /\ Cardinality(recs) = 1
                /\ \A i \in recs :
                      /\ DOMAIN diffs[i] = {"path", "agent", "gt"}
                      /\ (diffs[i].agent = missing) <=> (k \notin DOMAIN agent.v)
                      /\ (diffs[i].gt = missing) <=> (k \notin DOMAIN gt.v)

\* C25 as stated: below the cap the list of records is empty exactly when
\* the two values are deeply equal, and every key one dict lacks has its
\* one "<missing>" record.
C25_EmptyIffDeepEqual ==
    C25_BelowCap =>
        /\ (diffs = <<>>) <=> C25_DeepEqual(agent, gt)
        /\ C25_MissingKeys

\* C25 as amended: below the cap the list of records is empty exactly when
\* the two values have the same structure, the same types and the same
\* values at every leaf (an int and a float of equal value, which Python
\* holds equal, give a record), and every key one dict lacks has its one
\* "<missing>" record.
C25_EmptyIffSameTypesAndValues ==
    C25_BelowCap =>
        /\ (diffs = <<>>) <=> (agent = gt)
        /\ C25_MissingKeys

\* the ground truth lacks the key "a" and holds 1.0 where the agent holds 1
C25_Witness ==
    /\ C25_BelowCap
    /\ limit = 50
    /\ agent.t = "dict" /\ gt.t = "dict"
    /\ DOMAIN agent.v = {"a", "c"} /\ DOMAIN gt.v = {"c"}
    /\ agent.v["c"] = [t |-> "int", v |-> 1]
    /\ gt.v["c"] = [t |-> "float", v |-> 1]
    /\ Len(diffs) = 2
    /\ diffs[1].path = <<"a">>
    /\ diffs[1].gt = [t |-> "str", v |-> <<"<missing>">>]
    /\ diffs[2] = [path |-> <<"c">>, agent |-> [t |-> "str", v |-> <<"1">>],
                   gt |-> [t |-> "str", v |-> <<"1", ".0">>]]

----------------------------------------------------------------------------
(* Properties of the command responses, checked under SpecCmd *)

\* the wording by which a response announces success
C19_SuccessWording == {"Reservation booked successfully: ", "Success! "}

\* C19: when the tool of a command returned a string that begins with
\* "Error:", the response of the command carries no success wording.
C19_NoSuccessOnError ==
    (cpc = "responded" /\ tool_result # <<>> /\ tool_result[1] = "Error:") =>
        \A i \in 1..Len(response) : response[i] \notin C19_SuccessWording

\* the text each command puts in front of an error
C20_Prefix(c) ==
    CASE c = "book_reservation" -> "Reservation booked successfully: "
      [] c = "cancel_reservation" -> "Cancellation result: "
      [] c = "send_certificate" -> "Failed to send certificate: "
      [] c = "update_reservation_flights" -> "Response: Flight update result: "
      [] c = "update_reservation_baggages" -> "Response: Baggage update result: "
      [] c = "update_reservation_passengers" -> "Response: Update result: "
      [] c = "get_reservation_details" -> "Response: "
      [] c = "list_all_airports" -> "Available airports: "
      [] c = "search_onestop_flight" -> "One-stop flight search results: "

\* C20: a command invokes one tool, once; when the tool returned an error
\* string, the response is the fixed prefix of the command followed by that
\* string, unchanged.
C20_ErrorUnchanged ==
    /\ (cpc \in {"processed", "responded"} => Len(invoked) = 1)
    /\ (cpc = "idle" => invoked = <<>>)
    /\ ((cpc = "responded" /\ tool_result # <<>> /\ tool_result[1] = "Error:") =>
           /\ Len(response) = 1 + Len(tool_result)
           /\ response[1] = C20_Prefix(command)
           /\ \A i \in 1..Len(tool_result) : response[1 + i] = tool_result[i])

\* update_reservation_flights, which rewrites payloads, passed an error on
C20_Witness ==
    /\ cpc = "responded"
    /\ command = "update_reservation_flights"
    /\ invoked = <<"UpdateReservationFlights">>
    /\ tool_result = <<"Error:", " payment method not found">>
    /\ response = <<"Response: Flight update result: ", "Error:",
                    " payment method not found">>

----------------------------------------------------------------------------
(* Properties of the drains, checked under Spec *)

\* C22: in an iteration at most 200 items are taken off the trace queue
\* and at most 200 off the output queue; events are taken only during the
\* trace drain and outputs only during the output drain, which starts when
\* the trace drain has met an empty queue or taken 200 events and is not
\* followed by another trace drain in the iteration; a drain that meets an
\* empty queue can always return, and it returns its count so far without
\* taking anything and without raising.
C22_DrainsBounded ==
    /\ [](/\ (pc = "trace" => (polled = processed /\ processed <= 200))
          /\ (pc = "out" =>
                 /\ polled = progressed + processed
                 /\ progressed <= 200
                 /\ processed <= 200)
          /\ ((pc = "trace" /\ trace_q = <<>>) => ENABLED TraceEnd)
          /\ ((pc = "out" /\ output_q = <<>>) => ENABLED OutEnd))
    /\ [][/\ (trace_log' # trace_log => (pc = "trace" /\ pc' = "trace"))
           /\ (out_log' # out_log => pc = "out")
           /\ ((pc = "trace" /\ pc' # "trace") =>
                  /\ pc' = "out"
                  /\ (trace_q = <<>> \/ processed = 200)
                  /\ progressed' = processed
                  /\ UNCHANGED <<ndeq, exc, trace_q>>)
           /\ ((pc = "out" /\ pc' # "out") => pc' \in {"check", "except"})
           /\ ((pc = "out" /\ output_q = <<>> /\ pc' # "out") =>
                  /\ pc' = "check"
                  /\ progressed' = progressed + processed
                  /\ UNCHANGED <<ndeq, exc, output_q>>)]_vars

\* an iteration that took 200 items off each queue and left one on each
C22_Witness ==
    /\ pc = "check"
    /\ iter = 1
    /\ polled = 400
    /\ progressed = 400
    /\ Len(trace_q) = 1
    /\ Len(output_q) = 1

----------------------------------------------------------------------------
(* Properties of the two processes, checked under Spec *)

\* the loop is over and solve is at or past the snapshot of line 324
C26_PastLoop == pc \in {"snapshot", "simulate", "score", "returned"} /\ exc = ""

\* the tool steps that the events the workflow process has queued so far
\* call for: those taken off the queue, then those still on it
C26_Queued == C11_Expected(trace_log \o trace_q)

\* C26: when the loop has ended and nothing raised, every event that the
\* workflow process queued while the loop ran, that is not agent-originated
\* and names a command, has been issued to the environment as a tool step:
\* none is left on the trace queue when the snapshot is taken and the
\* reward computed.
C26_NoCommandLost ==
    C26_PastLoop => ToolSteps(env_actions) = C26_Queued

\* C27: the environment is given the tool steps and the respond steps in
\* the order in which the workflow process produced the events and the
\* outputs that caused them: whenever a step is issued, the item that
\* causes it is the oldest queued item that calls for a step, whichever
\* queue it is on.
C27_ProductionOrderKept ==
    [][Len(env_actions') > Len(env_actions) =>
          /\ pending # <<>>
          /\ Head(pending) = (IF IsToolStep(env_actions'[Len(env_actions')])
                              THEN "trace" ELSE "output")]_vars

----------------------------------------------------------------------------
(* Properties of the phases of solve, checked under Spec *)

\* what a run that has issued n steps and returned has done, in order
C28_Phases(n) ==
    <<"reset", "start_workflow">> \o [i \in 1..n |-> "step"]
        \o <<"loop_end", "collect_diffs", "calculate_reward">>

C28_InLoop == pc \in {"trace", "out", "check"}

\* C28: in a run of solve that has not raised, the phases occur in a fixed
\* order: env.reset once, before the workflow is started and before any
\* env.step; every env.step inside the interaction loop; and
\* env.calculate_reward once, after the loop has ended and the diff has been
\* built, with no env.step after it.
C28_PhasesInOrder ==
    exc = "" =>
        /\ pc = "start" => calls = <<>>
        /\ pc # "start" => IsPrefix(calls, C28_Phases(Len(env_actions)))
        /\ C28_InLoop => Len(calls) = 2 + Len(env_actions)
        /\ pc = "snapshot" => Len(calls) = 3 + Len(env_actions)
        /\ pc = "simulate" => Len(calls) = 3 + Len(env_actions)
        /\ pc = "score" => Len(calls) = 4 + Len(env_actions)
        /\ pc = "returned" => calls = C28_Phases(Len(env_actions))

\* a run has returned without raising after a tool step and a respond step
C28_Witness ==
    /\ pc = "returned" /\ exc = ""
    /\ \E i, j \in 1..Len(env_actions) :
           IsToolStep(env_actions[i]) /\ ~IsToolStep(env_actions[j])
    /\ calls = C28_Phases(Len(env_actions))

----------------------------------------------------------------------------
(* Properties of the input schemas, checked under SpecInput *)

\* C21: every optional string field of the command input schemas defaults
\* to the sentinel "NOT_FOUND" (a model built without the field holds the
\* sentinel) and its pattern accepts the sentinel (a model built with the
\* sentinel for the field is not rejected and holds it).
C21_SentinelEverywhere ==
    /\ ((ipc = "built" /\ supplied = Omitted) => field_value = NOT_FOUND)
    /\ (supplied = NOT_FOUND => (ipc = "built" /\ field_value = NOT_FOUND))
====
